---- MODULE Spec2Model ----
(***************************************************************************)
(* Model of the operation engine of the music tag batch editor:           *)
(* MusicTagProcessor (src/main.py, src/tag_processor.py) and the string   *)
(* helpers it relies on.                                                   *)
(*                                                                         *)
(* A Python str is a sequence of characters; a character is a one-element *)
(* token (a TLA+ string).  Characters outside ASCII are written by name.  *)
(* A Python dict is a function whose DOMAIN is its key set.  Dicts are    *)
(* objects: the model keeps them in a heap, and a variable that holds a   *)
(* dict holds a reference into it.                                        *)
(***************************************************************************)
EXTENDS Integers, Sequences, FiniteSets, TLC

VARIABLES
    operations,      \* MusicTagProcessor.operations
    heap,            \* reference -> dict object
    original_tags,   \* preview_changes argument (a reference)
    selected_fields, \* preview_changes argument (a list)
    modified_tags,   \* preview_changes local (a reference)
    pc,              \* "idle" | "loop" | "done"
    op_idx,          \* position of the outer for loop, 1-based
    fld_idx,         \* position of the inner for loop, 1-based
    target_field,    \* local of the inner loop
    current_value,   \* local of the inner loop
    new_value,       \* local of the inner loop
    result,          \* the reference preview_changes returned
    call_tags,       \* history: the contents of the caller's dict at the call
    writes,          \* history: the stores to modified_tags, in order
    files,           \* the file system: path -> audio file
    batch_processor, \* MusicTagEditor.batch_processor: the thread object, or None
    events,          \* history: file accesses and emitted signals, in order
    config_file      \* the JSON document save_config wrote, or what is in its place

vars == <<operations, heap, original_tags, selected_fields, modified_tags, pc,
          op_idx, fld_idx, target_field, current_value, new_value, result,
          call_tags, writes, files, batch_processor, events, config_file>>

\* What the engine does not touch.
io_state == <<files, batch_processor, events, config_file>>

(***************************************************************************)
(* Bounds                                                                  *)
(***************************************************************************)
MaxOps == 2

MaxLen == 3

MaxPos == 4

MaxDel == 3

MaxPat == 2

MaxText == 4

(***************************************************************************)
(* Python primitives                                                       *)
(***************************************************************************)
Min(a, b) == IF a <= b THEN a ELSE b

Max(a, b) == IF a >= b THEN a ELSE b

Range(s) == {s[i] : i \in 1..Len(s)}

\* The object None, and the two dict objects a call involves.
None == 0

\* MusicTagEditor.batch_processor when it holds no thread.
NoThread == [at |-> "none"]

\* The configuration file while none has been written.
NoConfig == [kind |-> "none"]

CallerRef == 1

CopyRef == 2

EmptyDict == [k \in {} |-> <<>>]

\* dict.get(key, "")
Get(d, key) == IF key \in DOMAIN d THEN d[key] ELSE <<>>

\* d[key] = value
Put(d, key, value) == [k \in (DOMAIN d) \cup {key} |-> IF k = key THEN value ELSE d[k]]

\* A slice bound i of a str of length n, as Python normalises it.
SliceIndex(i, n) == IF i < 0 THEN Max(i + n, 0) ELSE Min(i, n)

\* s[:p]
SliceTo(s, p) == SubSeq(s, 1, SliceIndex(p, Len(s)))

\* s[p:]
SliceFrom(s, p) == SubSeq(s, SliceIndex(p, Len(s)) + 1, Len(s))

IsPrefix(p, s) == Len(p) <= Len(s) /\ SubSeq(s, 1, Len(p)) = p

RECURSIVE Interleave(_, _)
\* str.replace with an empty search text: new before every character and at the end
Interleave(s, new) ==
    IF s = <<>> THEN new ELSE new \o <<Head(s)>> \o Interleave(Tail(s), new)

RECURSIVE ReplaceScanOverlap(_, _, _)
\* Mutant of ReplaceScan: after a match the scan goes on at the next character, not
\* behind the match.
ReplaceScanOverlap(s, old, new) ==
    IF Len(s) < Len(old) THEN s
    ELSE IF IsPrefix(old, s)
         THEN new \o ReplaceScanOverlap(Tail(s), old, new)
         ELSE <<Head(s)>> \o ReplaceScanOverlap(Tail(s), old, new)

RECURSIVE ReplaceScan(_, _, _)
ReplaceScan(s, old, new) ==
    IF Len(s) < Len(old) THEN s
    ELSE IF IsPrefix(old, s)
         THEN new \o ReplaceScan(SubSeq(s, Len(old) + 1, Len(s)), old, new)
         ELSE <<Head(s)>> \o ReplaceScan(Tail(s), old, new)

\* str.replace(old, new)
StrReplace(s, old, new) ==
    IF old = <<>> THEN Interleave(s, new) ELSE ReplaceScan(s, old, new)

\* Mutant of MatchEnd: the match is greedy, it ends at the last close it can reach.
MatchEndGreedy(s, close) ==
    LET K == {k \in 2..Len(s) : s[k] = close /\ \A m \in 2..(k - 1) : s[m] # "\n"}
    IN  IF K = {} THEN 0 ELSE CHOOSE k \in K : \A j \in K : j <= k

\* The first index k > 1 at which the pattern open.*?close, anchored at s[1],
\* can end: '.' matches any character but a newline.  0 when there is none.
MatchEnd(s, close) ==
    LET K == {k \in 2..Len(s) : s[k] = close /\ \A m \in 2..(k - 1) : s[m] # "\n"}
    IN  IF K = {} THEN 0 ELSE CHOOSE k \in K : \A j \in K : k <= j

RECURSIVE ReSubPairOnce(_, _, _)
\* Mutant of ReSubPair: only the first match is removed (re.sub with count=1).
ReSubPairOnce(s, open, close) ==
    IF s = <<>> THEN <<>>
    ELSE IF Head(s) = open /\ MatchEnd(s, close) # 0
         THEN SubSeq(s, MatchEnd(s, close) + 1, Len(s))
         ELSE <<Head(s)>> \o ReSubPairOnce(Tail(s), open, close)

RECURSIVE ReSubPair(_, _, _)
\* re.sub(re.escape(open) + '.*?' + re.escape(close), '', s)
ReSubPair(s, open, close) ==
    IF s = <<>> THEN <<>>
    ELSE IF Head(s) = open /\ MatchEnd(s, close) # 0
         THEN ReSubPair(SubSeq(s, MatchEnd(s, close) + 1, Len(s)), open, close)
         ELSE <<Head(s)>> \o ReSubPair(Tail(s), open, close)

RECURSIVE RemoveBracketsLoose(_, _)
\* Mutant of RemoveBrackets: an entry of any length is used, by its first and its
\* last character.
RemoveBracketsLoose(s, brackets) ==
    IF brackets = <<>> THEN s
    ELSE IF Head(brackets) # <<>>
         THEN RemoveBracketsLoose(ReSubPair(s, Head(brackets)[1],
                                            Head(brackets)[Len(Head(brackets))]),
                                  Tail(brackets))
         ELSE RemoveBracketsLoose(s, Tail(brackets))

RECURSIVE RemoveBrackets(_, _)
\* the loop over operation.brackets
RemoveBrackets(s, brackets) ==
    IF brackets = <<>> THEN s
    ELSE IF Len(Head(brackets)) = 2
         THEN RemoveBrackets(ReSubPair(s, Head(brackets)[1], Head(brackets)[2]),
                             Tail(brackets))
         ELSE RemoveBrackets(s, Tail(brackets))

\* The whitespace characters of the model's alphabet.
Whitespace == {" ", "\t", "\n"}

RECURSIVE LStrip(_)
LStrip(s) == IF s # <<>> /\ Head(s) \in Whitespace THEN LStrip(Tail(s)) ELSE s

RECURSIVE RStrip(_)
RStrip(s) ==
    IF s # <<>> /\ s[Len(s)] \in Whitespace THEN RStrip(SubSeq(s, 1, Len(s) - 1)) ELSE s

\* str.strip()
Strip(s) == RStrip(LStrip(s))

RECURSIVE CollapseSpaces(_)
\* re.sub(r'\s+', ' ', s)
CollapseSpaces(s) ==
    IF s = <<>> THEN <<>>
    ELSE IF Head(s) \in Whitespace
         THEN <<" ">> \o CollapseSpaces(LStrip(s))
         ELSE <<Head(s)>> \o CollapseSpaces(Tail(s))

\* The two palettes, character by character.
chinese_punctuation ==
    << "U+FF0C", "U+3002", "U+FF01", "U+FF1F", "U+FF1B", "U+FF1A", "\"", "U+2018",
       "U+2019", "\"", "\"", "U+FF08", "U+FF09", "U+3010", "U+3011", "U+300A",
       "U+300B" >>

english_punctuation ==
    << ",", ".", "!", "?", ";", ":", "'", "\"", "\"", "\"", "\"", "(", ")", "[", "]",
       "<", ">" >>

\* str.maketrans(from, to)[c]: a later pair of the palettes overrides an earlier one
TransChar(c, from, to) ==
    LET I == {i \in 1..Len(from) : from[i] = c}
    IN  IF I = {} THEN c ELSE to[CHOOSE i \in I : \A j \in I : j <= i]

\* s.translate(str.maketrans(from, to))
Translate(s, from, to) == [i \in 1..Len(s) |-> TransChar(s[i], from, to)]

\* The sub-mode selectors carried in new_text.
TRIM_EDGES == << "U+4E24", "U+7AEF", "U+7A7A", "U+683C" >>

TRIM_DUPLICATES == << "U+91CD", "U+590D", "U+7A7A", "U+683C" >>

TRIM_ALL == << "U+5168", "U+90E8" >>

TO_ENGLISH == << "U+4E2D", "U+6587", "U+8F6C", "U+82F1", "U+6587" >>

TO_CHINESE == << "U+82F1", "U+6587", "U+8F6C", "U+4E2D", "U+6587" >>

(***************************************************************************)
(* TagOperation                                                            *)
(***************************************************************************)
OperationType ==
    { "REPLACE", "INSERT_TEXT_PREFIX", "INSERT_TEXT_SUFFIX", "INSERT_FIELD_PREFIX",
      "INSERT_FIELD_SUFFIX", "INSERT_FIELD_POSITION", "DELETE_RANGE",
      "INSERT_POSITION", "REMOVE_BRACKETS", "TRIM_SPACES", "CONVERT_PUNCTUATION" }

\* TagOperation(op_type, target_field) with the dataclass defaults
TagOperation(op_type, field) ==
    [ op_type |-> op_type, target_field |-> field, source_field |-> "",
      text |-> <<>>, old_text |-> <<>>, new_text |-> <<>>, position |-> 0,
      length |-> 0, brackets |-> <<>>, separator |-> <<>>, apply_to_all |-> FALSE ]

(***************************************************************************)
(* preview_changes: the per-kind rules                                     *)
(***************************************************************************)
\* Mutant of FieldPrefix: the source value is not tested for emptiness.
FieldPrefixUntested(op, current, source_value) ==
    source_value \o op.separator \o current

\* source_value + separator + current_value, the two branches on separator
FieldPrefix(op, current, source_value) ==
    IF source_value # <<>>
    THEN IF op.separator # <<>>
         THEN source_value \o op.separator \o current
         ELSE source_value \o current
    ELSE current

FieldSuffix(op, current, source_value) ==
    IF source_value # <<>>
    THEN IF op.separator # <<>>
         THEN current \o op.separator \o source_value
         ELSE current \o source_value
    ELSE current

FieldPosition(op, current, source_value) ==
    IF source_value # <<>>
    THEN IF op.position <= Len(current)
         THEN IF op.separator # <<>>
              THEN SliceTo(current, op.position) \o op.separator \o source_value
                   \o SliceFrom(current, op.position)
              ELSE SliceTo(current, op.position) \o source_value
                   \o SliceFrom(current, op.position)
         ELSE IF op.separator # <<>>
              THEN current \o op.separator \o source_value
              ELSE current \o source_value
    ELSE current

\* Mutant of DeleteRange: the end of the range is taken inclusive.
DeleteRangeInclusive(op, current) ==
    IF op.position < Len(current)
    THEN LET end_pos == Min(op.position + op.length + 1, Len(current))
         IN  SliceTo(current, op.position) \o SliceFrom(current, end_pos)
    ELSE current

DeleteRange(op, current) ==
    IF op.position < Len(current)
    THEN LET end_pos == Min(op.position + op.length, Len(current))
         IN  SliceTo(current, op.position) \o SliceFrom(current, end_pos)
    ELSE current

InsertPosition(op, current) ==
    IF op.position <= Len(current)
    THEN SliceTo(current, op.position) \o op.text \o SliceFrom(current, op.position)
    ELSE current \o op.text

\* Mutant of TrimSpaces: the mode "all" strips the edges and does not collapse.
TrimSpacesNoCollapse(op, current) ==
    IF op.new_text \in {TRIM_EDGES, TRIM_ALL} THEN Strip(current)
    ELSE IF op.new_text = TRIM_DUPLICATES THEN CollapseSpaces(current)
         ELSE current

TrimSpaces(op, current) ==
    LET stripped == IF op.new_text \in {TRIM_EDGES, TRIM_ALL} THEN Strip(current)
                    ELSE current
    IN  IF op.new_text \in {TRIM_DUPLICATES, TRIM_ALL} THEN CollapseSpaces(stripped)
        ELSE stripped

ConvertPunctuation(op, current) ==
    IF op.new_text = TO_ENGLISH
    THEN Translate(current, chinese_punctuation, english_punctuation)
    ELSE IF op.new_text = TO_CHINESE
         THEN Translate(current, english_punctuation, chinese_punctuation)
         ELSE current

\* Mutant of CurrentValue: the current value is read from the input mapping.
CurrentValueFromOriginal(h, original, modified, field) == Get(h[original], field)

\* Mutant of CurrentValue: a missing key is read as the text of None, not as "".
CurrentValueNoDefault(h, original, modified, field) ==
    IF field \in DOMAIN h[modified] THEN h[modified][field]
    ELSE <<"N", "o", "n", "e">>

\* current_value = modified_tags.get(target_field, "")
CurrentValue(h, original, modified, field) == Get(h[modified], field)

\* Mutant of SourceValue: the source field is read from the working mapping.
SourceValueFromWorking(op, h, original, modified) == Get(h[modified], op.source_field)

\* Mutant of SourceValue: a field prefix is looked up in the working mapping.
SourceValuePrefixFromWorking(op, h, original, modified) ==
    IF op.op_type = "INSERT_FIELD_PREFIX" THEN Get(h[modified], op.source_field)
    ELSE Get(h[original], op.source_field)

\* The mapping a cross-field lookup reads: original_tags.get(source_field, "")
SourceValue(op, h, original, modified) == Get(h[original], op.source_field)

\* Mutant of UnknownKind: an operation of no known kind clears the value.
UnknownKindCleared(op, current) == <<>>

\* The else branch of the chain: new_value = current_value
UnknownKind(op, current) == current

\* The if/elif chain on operation.op_type: the new value of one field.
NewValue(op, current, source_value) ==
    CASE op.op_type = "REPLACE" -> StrReplace(current, op.old_text, op.new_text)
      [] op.op_type = "INSERT_TEXT_PREFIX" -> op.text \o current
      [] op.op_type = "INSERT_TEXT_SUFFIX" -> current \o op.text
      [] op.op_type = "INSERT_FIELD_PREFIX" -> FieldPrefix(op, current, source_value)
      [] op.op_type = "INSERT_FIELD_SUFFIX" -> FieldSuffix(op, current, source_value)
      [] op.op_type = "INSERT_FIELD_POSITION" -> FieldPosition(op, current, source_value)
      [] op.op_type = "DELETE_RANGE" -> DeleteRange(op, current)
      [] op.op_type = "INSERT_POSITION" -> InsertPosition(op, current)
      [] op.op_type = "REMOVE_BRACKETS" -> RemoveBrackets(current, op.brackets)
      [] op.op_type = "TRIM_SPACES" -> TrimSpaces(op, current)
      [] op.op_type = "CONVERT_PUNCTUATION" -> ConvertPunctuation(op, current)
      [] OTHER -> UnknownKind(op, current)

\* Mutant of TargetFields: the target is not checked against the selection.
TargetFieldsUnchecked(op, selected) ==
    IF op.apply_to_all THEN selected ELSE <<op.target_field>>

\* Mutant of TargetFields: apply_to_all is ignored (the rule of tag_processor.py).
TargetFieldsNoApplyAll(op, selected) ==
    IF op.target_field \in Range(selected) THEN <<op.target_field>> ELSE <<>>

\* Mutant of TargetFields: apply_to_all reaches the first selected field only.
TargetFieldsFirstOnly(op, selected) ==
    IF op.apply_to_all THEN (IF selected = <<>> THEN <<>> ELSE <<Head(selected)>>)
    ELSE IF op.target_field \in Range(selected) THEN <<op.target_field>> ELSE <<>>

\* The fields one operation is applied to, in iteration order.
TargetFields(op, selected) ==
    IF op.apply_to_all THEN selected
    ELSE IF op.target_field \in Range(selected) THEN <<op.target_field>> ELSE <<>>

\* Mutant of DictCopy: no copy is made, the working mapping is the caller's dict.
DictAlias(h, ref) == [heap |-> h, ref |-> ref]

\* original_tags.copy(): a new dict object with the same items
DictCopy(h, ref) == [heap |-> [h EXCEPT ![CopyRef] = h[ref]], ref |-> CopyRef]

\* Mutant of StoreValue: only a key the dict already has is assigned.
StoreExisting(h, ref, field, value) ==
    IF field \in DOMAIN h[ref] THEN [h EXCEPT ![ref] = Put(h[ref], field, value)] ELSE h

\* modified_tags[target_field] = new_value
StoreValue(h, ref, field, value) == [h EXCEPT ![ref] = Put(h[ref], field, value)]

RECURSIVE InnerLoop(_, _, _, _, _)
\* for target_field in target_fields: the passes of one operation, on the heap h
InnerLoop(op, fields, h, original, modified) ==
    IF fields = <<>> THEN h
    ELSE LET field == Head(fields)
             current == CurrentValue(h, original, modified, field)
             value == NewValue(op, current, SourceValue(op, h, original, modified))
         IN  InnerLoop(op, Tail(fields), StoreValue(h, modified, field, value),
                       original, modified)

RECURSIVE OuterLoop(_, _, _, _, _)
\* for operation in self.operations
OuterLoop(ops, selected, h, original, modified) ==
    IF ops = <<>> THEN h
    ELSE OuterLoop(Tail(ops), selected,
                   InnerLoop(Head(ops), TargetFields(Head(ops), selected), h,
                             original, modified),
                   original, modified)

\* The mapping a whole call preview_changes(tags, selected) returns.
PreviewResult(ops, tags, selected) ==
    LET h == [r \in {CallerRef, CopyRef} |-> IF r = CallerRef THEN tags ELSE EmptyDict]
        c == DictCopy(h, CallerRef)
    IN  OuterLoop(ops, selected, c.heap, CallerRef, c.ref)[c.ref]

(***************************************************************************)
(* tag_processor.py: the engine without apply_to_all                       *)
(***************************************************************************)
\* source_value + operation.separator + current_value
TPFieldPrefix(op, current, source_value) ==
    IF source_value # <<>> THEN source_value \o op.separator \o current ELSE current

\* current_value + operation.separator + source_value
TPFieldSuffix(op, current, source_value) ==
    IF source_value # <<>> THEN current \o op.separator \o source_value ELSE current

TPFieldPosition(op, current, source_value) ==
    IF source_value # <<>>
    THEN IF op.position <= Len(current)
         THEN SliceTo(current, op.position) \o op.separator \o source_value
              \o SliceFrom(current, op.position)
         ELSE current \o op.separator \o source_value
    ELSE current

\* The kinds without a source field have the same text in both files.
TPNewValue(op, current, source_value) ==
    CASE op.op_type = "REPLACE" -> StrReplace(current, op.old_text, op.new_text)
      [] op.op_type = "INSERT_TEXT_PREFIX" -> op.text \o current
      [] op.op_type = "INSERT_TEXT_SUFFIX" -> current \o op.text
      [] op.op_type = "INSERT_FIELD_PREFIX" -> TPFieldPrefix(op, current, source_value)
      [] op.op_type = "INSERT_FIELD_SUFFIX" -> TPFieldSuffix(op, current, source_value)
      [] op.op_type = "INSERT_FIELD_POSITION" -> TPFieldPosition(op, current, source_value)
      [] op.op_type = "DELETE_RANGE" -> DeleteRange(op, current)
      [] op.op_type = "INSERT_POSITION" -> InsertPosition(op, current)
      [] op.op_type = "REMOVE_BRACKETS" -> RemoveBrackets(current, op.brackets)
      [] op.op_type = "TRIM_SPACES" -> TrimSpaces(op, current)
      [] op.op_type = "CONVERT_PUNCTUATION" -> ConvertPunctuation(op, current)
      [] OTHER -> current

\* Mutant of TPSkipped: no operation is skipped.
TPSkippedNever(op, selected) == FALSE

\* if operation.target_field not in selected_fields: continue
TPSkipped(op, selected) == op.target_field \notin Range(selected)

\* The loop over the operations; original and modified are the two mappings.
RECURSIVE TPLoop(_, _, _, _)
TPLoop(ops, selected, original, modified) ==
    IF ops = <<>> THEN modified
    ELSE LET op == Head(ops)
             current == Get(modified, op.target_field)
             value == TPNewValue(op, current, Get(original, op.source_field))
         IN  IF TPSkipped(op, selected)
             THEN TPLoop(Tail(ops), selected, original, modified)
             ELSE TPLoop(Tail(ops), selected, original,
                         Put(modified, op.target_field, value))

\* The mapping tag_processor.py's preview_changes returns.
TPPreviewResult(ops, tags, selected) == TPLoop(ops, selected, tags, tags)

\* The operation list after the entry at 0-based row current_row is moved up:
\* ops[current_row], ops[current_row - 1] = ops[current_row - 1], ops[current_row]
move_operation_up(ops, current_row) ==
    IF current_row > 0
    THEN [ops EXCEPT ![current_row + 1] = ops[current_row],
                     ![current_row] = ops[current_row + 1]]
    ELSE ops

(***************************************************************************)
(* Inputs                                                                  *)
(***************************************************************************)
Fields == {"TITLE", "ARTIST"}

foo == <<"f", "o", "o">>

bar == <<"b", "a", "r">>

\* Every dict with the given value sets: a field is absent or holds one of them.
Dicts(titles, artists) ==
    { [k \in ks |-> IF k = "TITLE" THEN tv ELSE av] :
        ks \in SUBSET Fields, tv \in titles, av \in artists }

\* Every duplicate-free list of field names (the checked boxes, in any order).
FieldLists ==
    { <<>> } \cup { <<f>> : f \in Fields }
             \cup { s \in { <<f, g>> : f \in Fields, g \in Fields } : s[1] # s[2] }

\* How an operation names its fields: one target, or every selected field.
Targeted(ops) ==
    { [o EXCEPT !.target_field = f] : o \in ops, f \in Fields }
    \cup { [o EXCEPT !.apply_to_all = TRUE] : o \in ops }

\* The operations of the sequences the engine is run on.
OpPool ==
    Targeted(
      { [TagOperation("REPLACE", "TITLE") EXCEPT !.old_text = foo, !.new_text = bar],
        [TagOperation("INSERT_TEXT_SUFFIX", "TITLE") EXCEPT !.text = <<"x">>],
        [TagOperation("INSERT_FIELD_SUFFIX", "TITLE") EXCEPT
            !.source_field = "TITLE", !.separator = <<"/">>],
        [TagOperation("INSERT_FIELD_PREFIX", "TITLE") EXCEPT
            !.source_field = "ARTIST", !.separator = <<" ", "-", " ">>],
        [TagOperation("INSERT_FIELD_POSITION", "TITLE") EXCEPT
            !.source_field = "ARTIST", !.position = 1],
        [TagOperation("DELETE_RANGE", "TITLE") EXCEPT !.position = 0, !.length = 1] })

InputTags == Dicts({<<>>, foo}, {<<"A">>})

(***************************************************************************)
(* MusicTagProcessor                                                       *)
(***************************************************************************)
InitEngine ==
    /\ operations = <<>>
    /\ heap = [r \in {CallerRef, CopyRef} |-> EmptyDict]
    /\ original_tags = None
    /\ selected_fields = <<>>
    /\ modified_tags = None
    /\ pc = "idle"
    /\ op_idx = 0
    /\ fld_idx = 0
    /\ target_field = ""
    /\ current_value = <<>>
    /\ new_value = <<>>
    /\ result = None
    /\ call_tags = EmptyDict
    /\ writes = <<>>

\* The engine on its own: no files, no thread, no saved configuration.
Init ==
    /\ InitEngine
    /\ files = <<>>
    /\ batch_processor = NoThread
    /\ events = <<>>
    /\ config_file = NoConfig

call_state == <<heap, original_tags, selected_fields, modified_tags, pc, op_idx,
                fld_idx, target_field, current_value, new_value, result, call_tags,
                writes>>

add_operation(operation) ==
    /\ pc = "idle"
    /\ operations' = Append(operations, operation)
    /\ UNCHANGED <<call_state, io_state>>

clear_operations ==
    /\ pc = "idle"
    /\ operations # <<>>
    /\ operations' = <<>>
    /\ UNCHANGED <<call_state, io_state>>

\* The call and its first statement, modified_tags = original_tags.copy()
preview_changes(tags, selected) ==
    /\ pc = "idle"
    /\ LET h == [heap EXCEPT ![CallerRef] = tags]
           c == DictCopy(h, CallerRef)
       IN  /\ heap' = c.heap
           /\ modified_tags' = c.ref
    /\ original_tags' = CallerRef
    /\ selected_fields' = selected
    /\ call_tags' = tags
    /\ pc' = "loop"
    /\ op_idx' = 1
    /\ fld_idx' = 1
    /\ UNCHANGED <<operations, target_field, current_value, new_value, result,
                   writes, io_state>>

\* target_fields of the operation the outer loop is at
target_fields == TargetFields(operations[op_idx], selected_fields)

\* One pass of the inner loop body.
apply_operation ==
    /\ pc = "loop"
    /\ op_idx <= Len(operations)
    /\ fld_idx <= Len(target_fields)
    /\ LET operation == operations[op_idx]
           field == target_fields[fld_idx]
           current == CurrentValue(heap, original_tags, modified_tags, field)
           value == NewValue(operation, current,
                             SourceValue(operation, heap, original_tags, modified_tags))
       IN  /\ target_field' = field
           /\ current_value' = current
           /\ new_value' = value
           /\ heap' = StoreValue(heap, modified_tags, field, value)
           /\ writes' = Append(writes, [op |-> op_idx, field |-> field,
                                        value |-> value])
    /\ fld_idx' = fld_idx + 1
    /\ UNCHANGED <<operations, original_tags, selected_fields, modified_tags, pc,
                   op_idx, call_tags, result, io_state>>

\* The inner loop is exhausted: the outer loop takes the next operation.
next_operation ==
    /\ pc = "loop"
    /\ op_idx <= Len(operations)
    /\ fld_idx > Len(target_fields)
    /\ op_idx' = op_idx + 1
    /\ fld_idx' = 1
    /\ UNCHANGED <<operations, heap, original_tags, selected_fields, modified_tags,
                   pc, target_field, current_value, new_value, result, call_tags,
                   writes, io_state>>

\* return modified_tags
return_modified ==
    /\ pc = "loop"
    /\ op_idx > Len(operations)
    /\ result' = modified_tags
    /\ pc' = "done"
    /\ UNCHANGED <<operations, heap, original_tags, selected_fields, modified_tags,
                   op_idx, fld_idx, target_field, current_value, new_value, call_tags,
                   writes, io_state>>

Next ==
    \/ \E operation \in OpPool : Len(operations) < MaxOps /\ add_operation(operation)
    \/ clear_operations
    \/ \E tags \in InputTags, selected \in FieldLists : preview_changes(tags, selected)
    \/ apply_operation
    \/ next_operation
    \/ return_modified

Spec == Init /\ [][Next]_vars

(***************************************************************************)
(* One operation with its parameters drawn from bounded ranges, applied to *)
(* TITLE: the per-kind rules on every current value up to MaxLen.          *)
(***************************************************************************)
Alphabet == {"A", "B"}

Strings(n) == UNION { [1..k -> Alphabet] : k \in 0..n }

Positions == ((0 - MaxPos)..MaxPos) \cup {100}

Lengths == ((0 - MaxDel)..MaxDel) \cup {5}

Separators == { <<>>, <<" ", "-", " ">> }

RulePool ==
    { [TagOperation("REPLACE", "TITLE") EXCEPT !.old_text = old, !.new_text = new] :
        old \in Strings(MaxPat), new \in Strings(1) }
    \cup
    { [TagOperation(kind, "TITLE") EXCEPT
          !.source_field = source, !.separator = sep, !.position = p] :
        kind \in {"INSERT_FIELD_PREFIX", "INSERT_FIELD_SUFFIX"},
        source \in Fields, sep \in Separators, p \in {0, 1} }
    \cup
    { [TagOperation("INSERT_FIELD_POSITION", "TITLE") EXCEPT
          !.source_field = source, !.separator = sep, !.position = p] :
        source \in Fields, sep \in Separators, p \in Positions }
    \cup
    { [TagOperation("DELETE_RANGE", "TITLE") EXCEPT !.position = p, !.length = n] :
        p \in Positions, n \in Lengths }
    \cup
    { [TagOperation("INSERT_POSITION", "TITLE") EXCEPT !.position = p, !.text = t] :
        p \in Positions, t \in Strings(1) }

RuleTags == Dicts(Strings(MaxLen), {<<>>, <<"A">>})

NextRule ==
    \/ \E operation \in RulePool : operations = <<>> /\ add_operation(operation)
    \/ clear_operations
    \/ \E tags \in RuleTags : preview_changes(tags, <<"TITLE">>)
    \/ apply_operation
    \/ next_operation
    \/ return_modified

SpecRule == Init /\ [][NextRule]_vars

(***************************************************************************)
(* Two operations in a row on TITLE, the second chosen to follow the       *)
(* first: a deletion and the insertion that puts the text back, an         *)
(* operation applied to its own output, an operation after one whose kind  *)
(* the engine does not know.                                               *)
(***************************************************************************)
\* Every dict that holds at most the field TITLE.
TitleTags(values) == { EmptyDict } \cup { [k \in {"TITLE"} |-> v] : v \in values }

\* An op_type that is none of the eleven members of OperationType.
UnknownType == "UNKNOWN"

SuffixX == [TagOperation("INSERT_TEXT_SUFFIX", "TITLE") EXCEPT !.text = <<"x">>]

PairFirst ==
    { [TagOperation("DELETE_RANGE", "TITLE") EXCEPT !.position = p, !.length = n] :
        p \in Positions, n \in Lengths }
    \cup
    { [TagOperation("REPLACE", "TITLE") EXCEPT !.old_text = t, !.new_text = t] :
        t \in Strings(MaxPat) }
    \cup
    { [TagOperation(UnknownType, "TITLE") EXCEPT
          !.text = <<"x">>, !.old_text = <<"A">>, !.position = 1, !.length = 1] }

\* The operations added after op.
Follow(op) ==
    CASE op.op_type = "DELETE_RANGE" ->
            { [TagOperation("INSERT_POSITION", "TITLE") EXCEPT
                  !.position = op.position, !.text = t] : t \in Strings(MaxLen) }
      [] op.op_type = UnknownType -> { SuffixX }
      [] OTHER -> { op }

PairTags == TitleTags(Strings(MaxLen))

NextPair ==
    \/ \E operation \in PairFirst : operations = <<>> /\ add_operation(operation)
    \/ Len(operations) = 1
          /\ \E operation \in Follow(operations[1]) : add_operation(operation)
    \/ clear_operations
    \/ pc = "idle" /\ operations # <<>>
          /\ \E tags \in PairTags : preview_changes(tags, <<"TITLE">>)
    \/ apply_operation
    \/ next_operation
    \/ return_modified

SpecPair == Init /\ [][NextPair]_vars

(***************************************************************************)
(* The text clean-up kinds (REMOVE_BRACKETS, TRIM_SPACES,                  *)
(* CONVERT_PUNCTUATION) on TITLE, each on values over the characters it    *)
(* looks at; REMOVE_BRACKETS may be added a second time and a conversion   *)
(* may be followed by the conversion in the other direction.               *)
(***************************************************************************)
Texts(alphabet, n) == UNION { [1..k -> alphabet] : k \in 0..n }

BracketAlphabet == {"(", ")", "[", "]", "a", "\n"}

SpaceAlphabet == {" ", "\t", "a", "b"}

QuoteAlphabet == {"U+FF0C", "U+2018", "\"", "a"}

PaletteAlphabet == Range(chinese_punctuation) \cup Range(english_punctuation) \cup {"a"}

Round == <<"(", ")">>

Square == <<"[", "]">>

BracketLists ==
    { <<Round>>, <<Round, Square>>, <<Square, Round>>, << <<")", "(">>, Round >>,
      << <<"(">>, <<"(", "a", ")">> >>, << <<"(">>, Square >> }

\* "Song (Live) [Remix]", "((a)", "(a(b)c)", "  a   b  "
SongLiveRemix ==
    << "S", "o", "n", "g", " ", "(", "L", "i", "v", "e", ")", " ", "[", "R", "e", "m",
       "i", "x", "]" >>

OpenOpenA == <<"(", "(", "a", ")">>

Nested == <<"(", "a", "(", "b", ")", "c", ")">>

SpacedAB == <<" ", " ", "a", " ", " ", " ", "b", " ", " ">>

TextPool ==
    { [TagOperation("REMOVE_BRACKETS", "TITLE") EXCEPT !.brackets = b] :
        b \in BracketLists }
    \cup
    { [TagOperation("TRIM_SPACES", "TITLE") EXCEPT !.new_text = mode] :
        mode \in {TRIM_EDGES, TRIM_DUPLICATES, TRIM_ALL, <<>>} }
    \cup
    { [TagOperation("CONVERT_PUNCTUATION", "TITLE") EXCEPT !.new_text = direction] :
        direction \in {TO_ENGLISH, TO_CHINESE, <<>>} }

\* The operations added after op.
FollowText(op) ==
    CASE op.op_type = "REMOVE_BRACKETS" -> { op }
      [] op.op_type = "CONVERT_PUNCTUATION" /\ op.new_text = TO_ENGLISH ->
            { [op EXCEPT !.new_text = TO_CHINESE] }
      [] op.op_type = "CONVERT_PUNCTUATION" /\ op.new_text = TO_CHINESE ->
            { [op EXCEPT !.new_text = TO_ENGLISH] }
      [] OTHER -> {}

\* The values an operation of op's kind is run on.
TextTags(op) ==
    CASE op.op_type = "REMOVE_BRACKETS" ->
            TitleTags(Texts(BracketAlphabet, MaxText)
                      \cup {SongLiveRemix, OpenOpenA, Nested})
      [] op.op_type = "TRIM_SPACES" ->
            TitleTags(Texts(SpaceAlphabet, MaxText) \cup {SpacedAB})
      [] OTHER ->
            TitleTags(Texts(PaletteAlphabet, 1) \cup Texts(QuoteAlphabet, MaxText))

NextText ==
    \/ \E operation \in TextPool : operations = <<>> /\ add_operation(operation)
    \/ Len(operations) = 1
          /\ \E operation \in FollowText(operations[1]) : add_operation(operation)
    \/ clear_operations
    \/ pc = "idle" /\ operations # <<>>
          /\ \E tags \in TextTags(operations[1]) : preview_changes(tags, <<"TITLE">>)
    \/ apply_operation
    \/ next_operation
    \/ return_modified

SpecText == Init /\ [][NextText]_vars

(***************************************************************************)
(* Audio files and write_file_tags                                         *)
(*                                                                         *)
(* A file is a record: its extension, whether it can be opened and saved   *)
(* ("ok"), cannot be opened ("unreadable") or can be opened but not saved  *)
(* ("readonly"), whether it carries a tag block, whether beets handles it, *)
(* and its tag store.  A tag store is a function from storage keys to      *)
(* texts; a storage key is a tuple: <<name>> for a Vorbis key, an ID3      *)
(* frame or a beets attribute, <<"TXXX", desc>> for a user text frame,     *)
(* <<"_", name>> for a beets flexible attribute.                           *)
(***************************************************************************)
AudioFile(ext, state, has_tags, beets, store) ==
    [ ext |-> ext, state |-> state, has_tags |-> has_tags, beets |-> beets,
      store |-> store ]

\* del audio[key], guarded by "key in audio"
Del(store, key) == [k \in (DOMAIN store) \ {key} |-> store[k]]

Txxx(desc) == <<"TXXX", desc>>

mp3_field_map ==
    [ ARTIST |-> "TPE1", TITLE |-> "TIT2", ALBUM |-> "TALB", GENRE |-> "TCON",
      COMPOSER |-> "TCOM", PERFORMER |-> "TPE2", ALBUMARTIST |-> "TPE2",
      DATE |-> "TDRC", TRACKNUMBER |-> "TRCK", TRACKTOTAL |-> "TRCK",
      DISCNUMBER |-> "TPOS", COMMENT |-> "COMM" ]

dsf_field_map ==
    [ ARTIST |-> "TPE1", TITLE |-> "TIT2", ALBUM |-> "TALB", DATE |-> "TDRC",
      GENRE |-> "TCON", TRACKNUMBER |-> "TRCK", COMPOSER |-> "TCOM",
      PERFORMER |-> "TPE2", ALBUMARTIST |-> "TPE2", COMMENT |-> "COMM",
      DISCNUMBER |-> "TPOS" ]

field_mapping ==
    [ ARTIST |-> "artist", TITLE |-> "title", ALBUM |-> "album", GENRE |-> "genre",
      COMPOSER |-> "composer", PERFORMER |-> "performer",
      ALBUMARTIST |-> "albumartist", DATE |-> "year", TRACKNUMBER |-> "track",
      TRACKTOTAL |-> "tracktotal", DISCNUMBER |-> "disc", TOTALDISCS |-> "disctotal",
      COMMENT |-> "comments" ]

\* field.lower(), for the field names of the model
Lower(field) ==
    CASE field = "TITLE" -> "title"
      [] field = "ARTIST" -> "artist"
      [] field = "TRACKNUMBER" -> "tracknumber"
      [] field = "TRACKTOTAL" -> "tracktotal"
      [] field = "MOOD" -> "mood"

\* value != original_tags.get(field, "")
Changed(field, original, new) == new[field] # Get(original, field)

\* The loop body of the FLAC and WAV branches.
VorbisStep(store, field, original, new) ==
    IF Changed(field, original, new)
    THEN IF new[field] # <<>> THEN Put(store, <<field>>, new[field])
         ELSE Del(store, <<field>>)
    ELSE store

\* The loop body of the branch for other formats (easy keys are lower case).
EasyStep(store, field, original, new) ==
    IF Changed(field, original, new)
    THEN IF new[field] # <<>> THEN Put(store, <<Lower(field)>>, new[field])
         ELSE Del(store, <<Lower(field)>>)
    ELSE store

\* f"{value}/{tracktotal}" for TRACKNUMBER, f"{value}/{totaldiscs}" for DISCNUMBER
FrameText(field, new) ==
    IF field = "TRACKNUMBER" /\ Get(new, "TRACKTOTAL") # <<>>
    THEN new[field] \o <<"/">> \o Get(new, "TRACKTOTAL")
    ELSE IF field = "DISCNUMBER" /\ Get(new, "TOTALDISCS") # <<>>
         THEN new[field] \o <<"/">> \o Get(new, "TOTALDISCS")
         ELSE new[field]

\* The loop body of the MP3 branch.
Mp3Step(store, field, original, new) ==
    IF ~Changed(field, original, new) THEN store
    ELSE IF field \in DOMAIN mp3_field_map
         THEN IF new[field] # <<>>
              THEN IF field = "TRACKTOTAL" THEN store
                   ELSE Put(store, <<mp3_field_map[field]>>, FrameText(field, new))
              ELSE Del(store, <<mp3_field_map[field]>>)
         ELSE IF new[field] # <<>> THEN Put(store, Txxx(field), new[field])
              ELSE Del(store, Txxx(field))

\* The loop body of the mutagen fallback of _write_dsf_tags.
DsfStep(store, field, original, new) ==
    IF ~Changed(field, original, new) THEN store
    ELSE IF field \in DOMAIN dsf_field_map
         THEN IF new[field] # <<>>
              THEN Put(store, <<dsf_field_map[field]>>,
                       IF field = "TRACKNUMBER" /\ Get(new, "TRACKTOTAL") # <<>>
                       THEN new[field] \o <<"/">> \o Get(new, "TRACKTOTAL")
                       ELSE new[field])
              ELSE Del(store, <<dsf_field_map[field]>>)
         ELSE IF new[field] # <<>> THEN Put(store, Txxx(field), new[field])
              ELSE store

\* The two loops of the beets attempt of _write_dsf_tags, for one field:
\* setattr(item, beets_field, value or None), item['_' + field.lower()] = value
BeetsStep(store, field, original, new) ==
    IF ~Changed(field, original, new) THEN store
    ELSE IF field \in DOMAIN field_mapping
         THEN IF new[field] # <<>> THEN Put(store, <<field_mapping[field]>>, new[field])
              ELSE Del(store, <<field_mapping[field]>>)
         ELSE IF new[field] # <<>> THEN Put(store, <<"_", Lower(field)>>, new[field])
              ELSE store

\* for field, value in new_tags.items(): one branch's loop, items being the keys
\* of new_tags in the dict's order
RECURSIVE WriteLoop(_, _, _, _, _)
WriteLoop(branch, items, store, original, new) ==
    IF items = <<>> THEN store
    ELSE LET field == Head(items)
             next == CASE branch = "vorbis" -> VorbisStep(store, field, original, new)
                       [] branch = "easy" -> EasyStep(store, field, original, new)
                       [] branch = "mp3" -> Mp3Step(store, field, original, new)
                       [] branch = "dsf" -> DsfStep(store, field, original, new)
                       [] branch = "beets" -> BeetsStep(store, field, original, new)
         IN  WriteLoop(branch, Tail(items), next, original, new)

\* What a write leaves behind: the store, and whether an exception came out.
Returned(store) == [store |-> store, raised |-> FALSE]

Raised(store) == [store |-> store, raised |-> TRUE]

\* Open, run the loop, save: the constructor raises on a file that cannot be
\* opened, save() on one that cannot be written; nothing is stored before save().
OpenLoopSave(branch, file, items, original, new) ==
    IF file.state = "ok"
    THEN Returned(WriteLoop(branch, items, file.store, original, new))
    ELSE Raised(file.store)

\* _write_dsf_tags: beets, then mutagen, every exception caught and printed
WriteDsfTags(file, items, original, new) ==
    IF file.state = "ok"
    THEN Returned(WriteLoop(IF file.beets THEN "beets" ELSE "dsf", items, file.store,
                            original, new))
    ELSE Returned(file.store)

\* write_file_tags
WriteFileTags(file, items, original, new) ==
    CASE file.ext = ".flac" -> OpenLoopSave("vorbis", file, items, original, new)
      [] file.ext = ".mp3" -> OpenLoopSave("mp3", file, items, original, new)
      [] file.ext = ".wav" ->
            IF file.state = "unreadable" THEN Raised(file.store)
            ELSE IF ~file.has_tags THEN Returned(file.store)
                 ELSE OpenLoopSave("vorbis", file, items, original, new)
      [] file.ext = ".dsf" -> WriteDsfTags(file, items, original, new)
      [] OTHER -> OpenLoopSave("easy", file, items, original, new)

(***************************************************************************)
(* write_file_tags on its own: one file of every container and condition,  *)
(* one call with the original and the new mapping drawn from every pair    *)
(* a copy-then-store can produce over three fields: a frame that carries   *)
(* two fields (TRACKNUMBER, TRACKTOTAL) and a custom field (MOOD).         *)
(***************************************************************************)
WriteFields == {"TRACKNUMBER", "TRACKTOTAL", "MOOD"}

\* The two orders the keys of new_tags are iterated in.
WriteOrders ==
    { <<"TRACKNUMBER", "TRACKTOTAL", "MOOD">>, <<"MOOD", "TRACKTOTAL", "TRACKNUMBER">> }

WriteValues == { <<>>, <<"1">> }

\* The dicts over WriteFields.
WriteDicts ==
    UNION { [S -> WriteValues] : S \in SUBSET WriteFields }

\* The key a container holds a field under.
StorageKey(file, field) ==
    CASE file.ext \in {".flac", ".wav"} -> <<field>>
      [] file.ext = ".mp3" ->
            IF field \in DOMAIN mp3_field_map THEN <<mp3_field_map[field]>>
            ELSE Txxx(field)
      [] file.ext = ".dsf" /\ file.beets ->
            IF field \in DOMAIN field_mapping THEN <<field_mapping[field]>>
            ELSE <<"_", Lower(field)>>
      [] file.ext = ".dsf" /\ ~file.beets ->
            IF field \in DOMAIN dsf_field_map THEN <<dsf_field_map[field]>>
            ELSE Txxx(field)
      [] OTHER -> <<Lower(field)>>

\* The files: every container in every condition, holding an old text "0" for
\* any subset of the fields.
WriteFiles ==
    { AudioFile(x.ext, x.state, x.has_tags, x.beets,
                [k \in { StorageKey(x, f) : f \in S } |-> <<"0">>]) :
        x \in { y \in [ext : {".flac", ".mp3", ".wav", ".dsf", ".ogg"},
                       state : {"ok", "unreadable", "readonly"},
                       has_tags : BOOLEAN, beets : BOOLEAN] :
                  /\ (y.ext # ".wav" => y.has_tags)
                  /\ (y.ext # ".dsf" => ~y.beets) },
        S \in SUBSET WriteFields }

InitWrite ==
    /\ InitEngine
    /\ files \in { [p \in {"a"} |-> f] :
                     f \in { g \in WriteFiles : g.has_tags \/ g.store = <<>> } }
    /\ batch_processor = NoThread
    /\ events = <<>>
    /\ config_file = NoConfig

\* One call of write_file_tags(file_path, original_tags, new_tags).
write_file_tags(file_path, original, new, items) ==
    /\ events = <<>>
    /\ LET w == WriteFileTags(files[file_path], items, original, new)
       IN  /\ files' = [files EXCEPT ![file_path].store = w.store]
           /\ events' = <<[kind |-> "write", path |-> file_path, original |-> original,
                           new |-> new, before |-> files[file_path].store,
                           raised |-> w.raised]>>
    /\ UNCHANGED <<operations, call_state, batch_processor, config_file>>

NextWrite ==
    /\ events = <<>>
    /\ \E original \in WriteDicts, new \in WriteDicts, order \in WriteOrders :
          /\ DOMAIN original \subseteq DOMAIN new
          /\ write_file_tags("a", original, new,
                             SelectSeq(order, LAMBDA f : f \in DOMAIN new))

SpecWrite == InitWrite /\ [][NextWrite]_vars

(***************************************************************************)
(* read_file_tags, apply_to_file and the BatchProcessor thread             *)
(***************************************************************************)
\* The dict read_file_tags builds from a file it could open: the first value of
\* every key that has one, under the upper-case field name.  (The MP3 branch
\* names its keys through the tag library and is not modelled; the files of the
\* batch are FLAC, WAV, DSF and other formats.)
TagsOf(file) ==
    LET held == { f \in Fields : /\ StorageKey(file, f) \in DOMAIN file.store
                                 /\ file.store[StorageKey(file, f)] # <<>> }
    IN  [f \in held |-> file.store[StorageKey(file, f)]]

\* read_file_tags: every exception is caught, printed, and answered with {}
ReadFileTags(file) == IF file.state = "unreadable" THEN EmptyDict ELSE TagsOf(file)

\* The keys of a dict in the order its items() are iterated.
FieldOrder == <<"TITLE", "ARTIST">>

Items(d) == SelectSeq(FieldOrder, LAMBDA f : f \in DOMAIN d)

\* apply_to_file: read, preview, write; what the write leaves behind
ApplyToFile(file, ops, selected) ==
    LET original == ReadFileTags(file)
        new == PreviewResult(ops, original, selected)
    IN  WriteFileTags(file, Items(new), original, new)

\* str(e) of the exception a file's condition produces
ErrorMessage(file) == IF file.state = "unreadable" THEN "open failed" ELSE "save failed"

\* The list batch_completed carries after a cancellation.
CANCELLED == << "U+64CD", "U+4F5C", "U+88AB", "U+7528", "U+6237", "U+53D6", "U+6D88" >>

\* BatchProcessor.__init__ with the locals of run at their first values
BatchProcessor(file_paths, selected) ==
    [ file_paths |-> file_paths, selected_fields |-> selected,
      cancel_requested |-> FALSE, total_files |-> Len(file_paths),
      i |-> 0, success_count |-> 0, error_count |-> 0, error_files |-> <<>>,
      at |-> "for" ]

\* Mutant of EntersBody: the flag is not looked at.
EntersBodyUnchecked(bp) == bp.i < Len(bp.file_paths)

\* The head of the for loop: another file is left and no cancel was requested.
EntersBody(bp) == bp.i < Len(bp.file_paths) /\ ~bp.cancel_requested

\* Mutant of AfterException: the failure ends the loop.
AfterExceptionStops(bp, file_path, error_msg) ==
    [bp EXCEPT !.error_count = @ + 1,
               !.error_files = Append(@, [file |-> file_path, error |-> error_msg]),
               !.i = Len(bp.file_paths), !.at = "for"]

\* except Exception as e: count it, list it, go on with the next file
AfterException(bp, file_path, error_msg) ==
    [bp EXCEPT !.error_count = @ + 1,
               !.error_files = Append(@, [file |-> file_path, error |-> error_msg]),
               !.i = @ + 1, !.at = "for"]

\* apply_to_file returned
AfterSuccess(bp) == [bp EXCEPT !.success_count = @ + 1, !.i = @ + 1, !.at = "for"]

\* The operations and the selection of the batch.
BatchOps == << [TagOperation("INSERT_TEXT_SUFFIX", "TITLE") EXCEPT !.text = <<"x">>] >>

BatchSelected == <<"TITLE">>

\* The bound on the number of files.
MaxFiles == 2

Paths == { "a", "b", "c", "d" }

PathsUpTo(n) == { p \in Paths : \E k \in 1..n : p = <<"a", "b", "c", "d">>[k] }

\* A file of the batch: FLAC or DSF, in any condition, holding a TITLE.
BatchFiles ==
    { AudioFile(x.ext, x.state, TRUE, x.beets,
                [k \in { StorageKey(x, f) : f \in S } |-> <<"A">>]) :
        x \in { y \in [ext : {".flac", ".dsf"}, state : {"ok", "unreadable", "readonly"},
                       beets : BOOLEAN] : y.beets <=> y.ext = ".dsf" },
        S \in { {"TITLE"} } }

\* Every duplicate-free list over a set of paths.
PathLists(S) ==
    UNION { { q \in [1..n -> S] : \A j, k \in 1..n : q[j] = q[k] => j = k } :
              n \in 1..Cardinality(S) }

InitBatch ==
    /\ InitEngine
    /\ files \in [PathsUpTo(MaxFiles) -> BatchFiles]
    /\ batch_processor = NoThread
    /\ events = <<>>
    /\ config_file = NoConfig

batch_frame == <<call_state, config_file>>

\* The operations are added before the batch is started.
add_batch_operations ==
    /\ operations = <<>>
    /\ batch_processor = NoThread
    /\ events = <<>>
    /\ operations' = BatchOps
    /\ UNCHANGED <<files, batch_processor, events, batch_frame>>

\* apply_changes: the three early returns, then the thread is created and started
apply_changes(selected_files, selected) ==
    /\ batch_processor = NoThread
    /\ events = <<>>
    /\ selected_files # <<>>
    /\ operations # <<>>
    /\ selected # <<>>
    /\ batch_processor' = BatchProcessor(selected_files, selected)
    /\ events' = <<[kind |-> "start", file_paths |-> selected_files]>>
    /\ UNCHANGED <<operations, files, batch_frame>>

\* for i, file_path in enumerate(self.file_paths): if self.cancel_requested: break
\* and, inside the loop, progress_updated.emit
run_for ==
    /\ batch_processor.at # "none"
    /\ batch_processor.at = "for"
    /\ IF EntersBody(batch_processor)
       THEN /\ batch_processor' = [batch_processor EXCEPT !.at = "body"]
            /\ events' = Append(events,
                  [kind |-> "progress_updated", current |-> batch_processor.i + 1,
                   total |-> batch_processor.total_files,
                   path |-> batch_processor.file_paths[batch_processor.i + 1]])
       ELSE /\ batch_processor' = [batch_processor EXCEPT !.at = "emit"]
            /\ UNCHANGED events
    /\ UNCHANGED <<operations, files, batch_frame>>

\* The rest of the loop body: apply_to_file, then the count and file_processed.
run_body ==
    /\ batch_processor.at # "none"
    /\ batch_processor.at = "body"
    /\ LET file_path == batch_processor.file_paths[batch_processor.i + 1]
           file == files[file_path]
           w == ApplyToFile(file, operations, batch_processor.selected_fields)
       IN  /\ files' = [files EXCEPT ![file_path].store = w.store]
           /\ batch_processor' =
                 IF w.raised
                 THEN AfterException(batch_processor, file_path, ErrorMessage(file))
                 ELSE AfterSuccess(batch_processor)
           /\ events' = events \o
                 << [kind |-> "read", path |-> file_path],
                    [kind |-> "write", path |-> file_path, before |-> file.store,
                     after |-> w.store],
                    [kind |-> "file_processed", path |-> file_path,
                     success |-> ~w.raised] >>
    /\ UNCHANGED <<operations, batch_frame>>

\* After the loop: batch_completed.emit, the list chosen by the flag as it is now.
run_emit ==
    /\ batch_processor.at # "none"
    /\ batch_processor.at = "emit"
    /\ events' = Append(events,
          [kind |-> "batch_completed",
           success_count |-> batch_processor.success_count,
           error_count |-> batch_processor.error_count,
           error_files |-> IF batch_processor.cancel_requested THEN <<CANCELLED>>
                           ELSE batch_processor.error_files])
    /\ batch_processor' = [batch_processor EXCEPT !.at = "finished"]
    /\ UNCHANGED <<operations, files, batch_frame>>

\* BatchProcessor.run, step by step
run == run_for \/ run_body \/ run_emit

\* cancel_processing: if self.batch_processor: self.batch_processor.cancel()
cancel_processing ==
    /\ batch_processor.at # "none"
    /\ ~batch_processor.cancel_requested
    /\ batch_processor' = [batch_processor EXCEPT !.cancel_requested = TRUE]
    /\ events' = Append(events, [kind |-> "cancel"])
    /\ UNCHANGED <<operations, files, batch_frame>>

\* on_processing_completed, the slot of batch_completed: the thread is dropped
on_processing_completed ==
    /\ batch_processor.at # "none"
    /\ batch_processor.at = "finished"
    /\ batch_processor' = NoThread
    /\ UNCHANGED <<operations, files, events, batch_frame>>

NextBatch ==
    \/ add_batch_operations
    \/ \E selected_files \in PathLists(DOMAIN files) :
          apply_changes(selected_files, BatchSelected)
    \/ run_for
    \/ run_body
    \/ run_emit
    \/ cancel_processing
    \/ on_processing_completed

\* A started thread is scheduled until run returns; a queued signal is delivered.
SpecBatch ==
    InitBatch /\ [][NextBatch]_vars /\ WF_vars(run) /\ WF_vars(on_processing_completed)

(***************************************************************************)
(* save_config and load_config                                             *)
(*                                                                         *)
(* The configuration file is a record: kind "none" while no file exists,   *)
(* "unreadable" for a file open() fails on, "invalid" for one json.load    *)
(* fails on, "array" for a JSON document that is not an object, "json" for *)
(* a JSON object (its content under config).  A JSON object is a function  *)
(* from key names to values.                                               *)
(***************************************************************************)
\* OperationType.<name>.value
Value(name) ==
    CASE name = "REPLACE" -> << "U+66FF", "U+6362" >>
      [] name = "INSERT_TEXT_PREFIX" ->
            << "U+63D2", "U+5165", "U+6587", "U+672C", "U+524D", "U+7F00" >>
      [] name = "INSERT_TEXT_SUFFIX" ->
            << "U+63D2", "U+5165", "U+6587", "U+672C", "U+540E", "U+7F00" >>
      [] name = "INSERT_FIELD_PREFIX" ->
            << "U+63D2", "U+5165", "U+5B57", "U+6BB5", "U+524D", "U+7F00" >>
      [] name = "INSERT_FIELD_SUFFIX" ->
            << "U+63D2", "U+5165", "U+5B57", "U+6BB5", "U+540E", "U+7F00" >>
      [] name = "INSERT_FIELD_POSITION" ->
            << "U+63D2", "U+5165", "U+5B57", "U+6BB5", "U+5230", "U+4F4D", "U+7F6E" >>
      [] name = "DELETE_RANGE" -> << "U+5220", "U+9664", "U+8303", "U+56F4" >>
      [] name = "INSERT_POSITION" -> << "U+63D2", "U+5165", "U+5230", "U+4F4D", "U+7F6E" >>
      [] name = "REMOVE_BRACKETS" -> << "U+6E05", "U+9664", "U+62EC", "U+53F7" >>
      [] name = "TRIM_SPACES" -> << "U+4FEE", "U+526A", "U+7A7A", "U+683C" >>
      [] name = "CONVERT_PUNCTUATION" -> << "U+8F6C", "U+6362", "U+6807", "U+70B9" >>

\* OperationType(value): the member with that value, or a ValueError
OperationTypeOf(value) ==
    IF \E name \in OperationType : Value(name) = value
    THEN CHOOSE name \in OperationType : Value(name) = value
    ELSE "ValueError"

\* Mutant of OpDict: apply_to_all is not written.
OpDictWithoutApplyToAll(op) ==
    [ op_type |-> Value(op.op_type), target_field |-> op.target_field,
      source_field |-> op.source_field, text |-> op.text, old_text |-> op.old_text,
      new_text |-> op.new_text, position |-> op.position, length |-> op.length,
      brackets |-> op.brackets, separator |-> op.separator ]

\* op_dict of save_config
OpDict(op) ==
    [ op_type |-> Value(op.op_type), target_field |-> op.target_field,
      source_field |-> op.source_field, text |-> op.text, old_text |-> op.old_text,
      new_text |-> op.new_text, position |-> op.position, length |-> op.length,
      brackets |-> op.brackets, separator |-> op.separator,
      apply_to_all |-> op.apply_to_all ]

\* config of save_config (the selection and the custom fields are not modelled)
Config(ops) ==
    [ operations |-> [k \in 1..Len(ops) |-> OpDict(ops[k])],
      selected_fields |-> <<>>, custom_fields |-> <<>> ]

\* d.get(key, default)
DictGet(d, key, default) == IF key \in DOMAIN d THEN d[key] ELSE default

\* Neither OperationType(op_dict['op_type']) nor op_dict['target_field'] raises.
Parses(op_dict) ==
    /\ "op_type" \in DOMAIN op_dict
    /\ OperationTypeOf(op_dict["op_type"]) # "ValueError"
    /\ "target_field" \in DOMAIN op_dict

\* The TagOperation load_config builds from one record.
FromDict(op_dict) ==
    [ op_type |-> OperationTypeOf(op_dict["op_type"]),
      target_field |-> op_dict["target_field"],
      source_field |-> DictGet(op_dict, "source_field", ""),
      text |-> DictGet(op_dict, "text", <<>>),
      old_text |-> DictGet(op_dict, "old_text", <<>>),
      new_text |-> DictGet(op_dict, "new_text", <<>>),
      position |-> DictGet(op_dict, "position", 0),
      length |-> DictGet(op_dict, "length", 0),
      brackets |-> DictGet(op_dict, "brackets", <<>>),
      separator |-> DictGet(op_dict, "separator", <<>>),
      apply_to_all |-> DictGet(op_dict, "apply_to_all", FALSE) ]

\* for op_dict in config.get('operations', []): the records are added one by one
\* until one raises
RECURSIVE LoadLoop(_, _)
LoadLoop(records, ops) ==
    IF records = <<>> THEN [operations |-> ops, failed |-> FALSE]
    ELSE IF Parses(Head(records))
         THEN LoadLoop(Tail(records), Append(ops, FromDict(Head(records))))
         ELSE [operations |-> ops, failed |-> TRUE]

\* The try block of load_config: open and json.load, clear_operations, the loop
LoadConfig(doc, ops) ==
    CASE doc.kind \in {"unreadable", "invalid"} -> [operations |-> ops, failed |-> TRUE]
      [] doc.kind = "array" -> [operations |-> <<>>, failed |-> TRUE]
      [] doc.kind = "json" -> LoadLoop(DictGet(doc.config, "operations", <<>>), <<>>)

\* The operations of the sequences that are saved: between them they set every
\* attribute to something other than its default.
ConfigPool ==
    { [TagOperation("REPLACE", "TITLE") EXCEPT !.old_text = foo, !.new_text = bar],
      [TagOperation("INSERT_FIELD_POSITION", "ARTIST") EXCEPT
          !.source_field = "TITLE", !.separator = <<"/">>, !.position = -1,
          !.apply_to_all = TRUE],
      [TagOperation("DELETE_RANGE", "TITLE") EXCEPT !.position = 1, !.length = 2],
      [TagOperation("REMOVE_BRACKETS", "TITLE") EXCEPT !.brackets = <<Round, Square>>],
      [TagOperation("INSERT_TEXT_SUFFIX", "ARTIST") EXCEPT !.text = <<"x">>] }

Json(config) == [kind |-> "json", config |-> config]

\* A record with an op_type no OperationType has, one without target_field, one
\* with the two required keys only.
UnknownOpType == [OpDict(TagOperation("DELETE_RANGE", "TITLE")) EXCEPT !.op_type = <<"x">>]

NoTargetField == [op_type |-> Value("REPLACE")]

RequiredOnly == [op_type |-> Value("TRIM_SPACES"), target_field |-> "TITLE"]

Replace == OpDict([TagOperation("REPLACE", "TITLE") EXCEPT !.old_text = foo, !.new_text = bar])

\* Files that were not written by save_config.
ForeignFiles ==
    { [kind |-> "unreadable"], [kind |-> "invalid"], [kind |-> "array"],
      Json([selected_fields |-> <<>>]),
      Json([operations |-> <<RequiredOnly>>]),
      Json([operations |-> <<UnknownOpType>>]),
      Json([operations |-> <<Replace, UnknownOpType>>]),
      Json([operations |-> <<Replace, NoTargetField>>]) }

\* load_config has run.
Loaded == \E k \in 1..Len(events) : events[k].kind = "load"

config_frame == <<call_state, files, batch_processor>>

\* save_config with a path chosen and the file written
save_config ==
    /\ config_file.kind = "none"
    /\ config_file' = Json(Config(operations))
    /\ events' = Append(events, [kind |-> "save", operations |-> operations])
    /\ UNCHANGED <<operations, config_frame>>

\* Some other file is put where load_config will look.
foreign_file(doc) ==
    /\ config_file.kind = "none"
    /\ config_file' = doc
    /\ events' = Append(events, [kind |-> "foreign"])
    /\ UNCHANGED <<operations, config_frame>>

\* load_config with a path chosen
load_config ==
    /\ config_file.kind # "none"
    /\ ~Loaded
    /\ LET r == LoadConfig(config_file, operations)
       IN  /\ operations' = r.operations
           /\ events' = Append(events, [kind |-> "load", failed |-> r.failed,
                                        before |-> operations, after |-> r.operations])
    /\ UNCHANGED <<config_file, config_frame>>

NextConfig ==
    \/ \E operation \in ConfigPool :
          ~Loaded /\ Len(operations) < MaxOps /\ add_operation(operation)
    \/ ~Loaded /\ clear_operations
    \/ save_config
    \/ \E doc \in ForeignFiles : foreign_file(doc)
    \/ load_config

SpecConfig == Init /\ [][NextConfig]_vars

(***************************************************************************)
(* Properties of preview_changes                                           *)
(***************************************************************************)
\* The locals hold the last pass of the inner loop: operation op_idx was applied
\* to target_field, which held current_value and now holds new_value.
Applied == pc = "loop" /\ fld_idx > 1

LastOp == operations[op_idx]

FieldKinds == {"INSERT_FIELD_PREFIX", "INSERT_FIELD_SUFFIX", "INSERT_FIELD_POSITION"}

\* Every way of inserting piece into s without changing s otherwise.
Spliced(s, piece) ==
    { SubSeq(s, 1, k) \o piece \o SubSeq(s, k + 1, Len(s)) : k \in 0..Len(s) }

ReplaceFooBar ==
    [TagOperation("REPLACE", "TITLE") EXCEPT !.old_text = foo, !.new_text = bar]

SuffixTitle ==
    [TagOperation("INSERT_FIELD_SUFFIX", "TITLE") EXCEPT
        !.source_field = "TITLE", !.separator = <<"/">>]

\* The value a field holds after the stores ws: its last store, else the input's.
LatestWrite(ws, f) ==
    LET I == {i \in 1..Len(ws) : ws[i].field = f}
    IN  IF I = {} THEN Get(call_tags, f)
        ELSE ws[CHOOSE i \in I : \A j \in I : j <= i].value

EarlierWrites == SubSeq(writes, 1, Len(writes) - 1)

\* The fields operation i stored to, in the order of the stores.
FieldsWrittenBy(i) ==
    LET ws == SelectSeq(writes, LAMBDA w : w.op = i)
    IN  [k \in 1..Len(ws) |-> ws[k].field]

\* Some operation targets the selected field f.
TargetedBy(f) ==
    /\ f \in Range(selected_fields)
    /\ \E i \in 1..Len(operations) :
          operations[i].apply_to_all \/ operations[i].target_field = f

\* C1: every INSERT_FIELD_PREFIX / INSERT_FIELD_SUFFIX / INSERT_FIELD_POSITION pass
\* inserts the value the source field had in the input mapping (nothing when that
\* value is empty), whatever the working mapping holds by then; and the sequence
\* [REPLACE TITLE foo->bar, INSERT_FIELD_SUFFIX TITLE source TITLE "/"] on
\* {TITLE: "foo"} with TITLE selected returns TITLE = "bar/foo".
C1_SourceReadFromOriginal ==
    /\ (Applied /\ LastOp.op_type \in FieldKinds) =>
          LET src == Get(call_tags, LastOp.source_field)
              sep == LastOp.separator
          IN  IF src = <<>> THEN new_value = current_value
              ELSE new_value \in Spliced(current_value, src \o sep)
                                 \cup Spliced(current_value, sep \o src)
    /\ ( /\ pc = "done"
         /\ operations = <<ReplaceFooBar, SuffixTitle>>
         /\ call_tags = [k \in {"TITLE"} |-> foo]
         /\ "TITLE" \in Range(selected_fields) ) =>
          heap[result] = [k \in {"TITLE"} |-> bar \o <<"/">> \o foo]

\* C1 witness: a suffix pass whose source field is its own target, already
\* rewritten from foo to bar by the earlier REPLACE.
C1_Witness ==
    /\ Applied
    /\ LastOp = SuffixTitle
    /\ Get(call_tags, "TITLE") = foo
    /\ current_value = bar
    /\ new_value = bar \o <<"/">> \o foo

\* C2: a field no operation targets (it is not selected, or no operation is
\* apply_to_all and none names it) is in the returned mapping exactly when it is in
\* the input, with the same value.
C2_UntargetedUnchanged ==
    pc = "done" =>
        \A f \in Fields :
            ~TargetedBy(f) =>
                /\ (f \in DOMAIN heap[result]) <=> (f \in DOMAIN call_tags)
                /\ Get(heap[result], f) = Get(call_tags, f)

\* C2 witness: an operation names a field that is not selected and holds a value,
\* while another field was changed by the same sequence.
C2_Witness ==
    /\ pc = "done"
    /\ \E f \in Fields :
          /\ f \notin Range(selected_fields)
          /\ \E i \in 1..Len(operations) :
                ~operations[i].apply_to_all /\ operations[i].target_field = f
          /\ Get(call_tags, f) # <<>>
    /\ \E g \in Fields : Get(heap[result], g) # Get(call_tags, g)

\* C3 as stated: the returned mapping has exactly the key set of the input.
C3_SameKeys == pc = "done" => DOMAIN heap[result] = DOMAIN call_tags

\* C3 amended: no key is removed, and the keys added are exactly the selected
\* fields that some operation targeted and the input lacked.
C3_KeysPlusTargeted ==
    pc = "done" =>
        DOMAIN heap[result] = (DOMAIN call_tags) \cup {f \in Fields : TargetedBy(f)}

\* C3 witness: a targeted selected field absent from the input is a key of the
\* returned mapping.
C3_Witness ==
    /\ pc = "done"
    /\ \E f \in Fields : f \notin DOMAIN call_tags /\ f \in DOMAIN heap[result]

\* C4: from the call on, no step changes the caller's mapping, the operation
\* sequence or the selected-field list; only the working copy is written.
C4_InputsUnchanged ==
    [][pc # "idle" =>
          /\ operations' = operations
          /\ original_tags' = original_tags
          /\ heap'[original_tags] = heap[original_tags]
          /\ heap[original_tags] = call_tags
          /\ selected_fields' = selected_fields]_vars

\* C4 witness: the call has returned a mapping that differs from the input, and
\* the caller's mapping still holds what it held at the call.
C4_Witness ==
    /\ pc = "done"
    /\ heap[result] # call_tags
    /\ heap[original_tags] = call_tags

RECURSIVE FoldFields(_, _, _, _)
\* One operation over its target fields, from left to right.
FoldFields(op, fields, original, working) ==
    IF fields = <<>> THEN working
    ELSE FoldFields(op, Tail(fields), original,
                    Put(working, Head(fields),
                        NewValue(op, Get(working, Head(fields)),
                                 Get(original, op.source_field))))

RECURSIVE FoldOps(_, _, _, _)
\* The operations from left to right over the working mapping.
FoldOps(ops, selected, original, working) ==
    IF ops = <<>> THEN working
    ELSE FoldOps(Tail(ops), selected, original,
                 FoldFields(Head(ops),
                            IF Head(ops).apply_to_all THEN selected
                            ELSE IF Head(ops).target_field \in Range(selected)
                                 THEN <<Head(ops).target_field>> ELSE <<>>,
                            original, working))

\* C5: the stores happen in sequence order; the current value a pass sees is the
\* value of the latest earlier store to that field (the input's value, or "" when
\* absent, if there was none); and the returned mapping is the working mapping
\* after the last operation, the left-to-right fold of the sequence.
C5_LeftToRightFold ==
    /\ \A i \in 1..(Len(writes) - 1) : writes[i].op <= writes[i + 1].op
    /\ Applied =>
          /\ writes[Len(writes)] =
                [op |-> op_idx, field |-> target_field, value |-> new_value]
          /\ current_value = LatestWrite(EarlierWrites, target_field)
    /\ pc = "done" =>
          /\ \A f \in Fields : Get(heap[result], f) = LatestWrite(writes, f)
          /\ heap[result] = FoldOps(operations, selected_fields, call_tags, call_tags)

\* C5 witness: the second operation sees a value the first one wrote, which is
\* not the value of the input.
C5_Witness ==
    /\ Applied
    /\ op_idx = 2
    /\ \E i \in 1..Len(EarlierWrites) :
          /\ writes[i].op = 1
          /\ writes[i].field = target_field
          /\ writes[i].value = current_value
    /\ current_value # Get(call_tags, target_field)
    /\ new_value # current_value

\* C6: an apply_to_all operation stores to every selected field, once each and
\* in list order, each pass reading that field's own working value; any other
\* operation stores to its target_field alone when that is selected and to nothing
\* otherwise; a sequence whose operations are all skipped returns the input.
C6_TargetSelection ==
    /\ \A i \in 1..Len(operations) :
          (pc = "done" \/ (pc = "loop" /\ op_idx > i)) =>
              FieldsWrittenBy(i) =
                  IF operations[i].apply_to_all THEN selected_fields
                  ELSE IF operations[i].target_field \in Range(selected_fields)
                       THEN <<operations[i].target_field>>
                       ELSE <<>>
    /\ (Applied /\ LastOp.apply_to_all) =>
          current_value = LatestWrite(EarlierWrites, target_field)
    /\ ( /\ pc = "done"
         /\ \A i \in 1..Len(operations) :
               /\ ~operations[i].apply_to_all
               /\ operations[i].target_field \notin Range(selected_fields) ) =>
          heap[result] = call_tags

\* C6 witness: an apply_to_all operation went to both selected fields in list
\* order, and an operation naming one of them went to that field alone.
C6_Witness ==
    /\ pc = "done"
    /\ Len(selected_fields) = 2
    /\ \E i, j \in 1..Len(operations) :
          /\ operations[i].apply_to_all
          /\ FieldsWrittenBy(i) = selected_fields
          /\ ~operations[j].apply_to_all
          /\ FieldsWrittenBy(j) = <<operations[j].target_field>>
    /\ \A f \in Fields : Get(heap[result], f) # Get(call_tags, f)

(***************************************************************************)
(* Properties of the per-kind rules                                        *)
(***************************************************************************)
PrefixArtist ==
    [TagOperation("INSERT_FIELD_PREFIX", "TITLE") EXCEPT
        !.source_field = "ARTIST", !.separator = <<" ", "-", " ">>]

\* C7 as stated: REPLACE with an empty old_text leaves the value unchanged,
\* whatever new_text is.
C7_EmptyOldTextIdentity ==
    (Applied /\ LastOp.op_type = "REPLACE" /\ LastOp.old_text = <<>>) =>
        new_value = current_value

\* C8: INSERT_FIELD_PREFIX yields source_value + separator + current and
\* INSERT_FIELD_SUFFIX yields current + separator + source_value when the source
\* field's input value is non-empty, an empty separator adding nothing; both leave
\* current unchanged when the source is empty or absent; and {ARTIST: "A",
\* TITLE: "B"} with INSERT_FIELD_PREFIX TITLE source ARTIST " - " gives
\* {ARTIST: "A", TITLE: "A - B"}.
C8_FieldPrefixSuffix ==
    /\ Applied =>
          LET src == Get(call_tags, LastOp.source_field)
              sep == LastOp.separator
          IN  /\ LastOp.op_type = "INSERT_FIELD_PREFIX" =>
                    new_value = IF src # <<>> THEN src \o sep \o current_value
                                ELSE current_value
              /\ LastOp.op_type = "INSERT_FIELD_SUFFIX" =>
                    new_value = IF src # <<>> THEN current_value \o sep \o src
                                ELSE current_value
    /\ ( /\ pc = "done"
         /\ operations = <<PrefixArtist>>
         /\ call_tags = [k \in Fields |-> IF k = "ARTIST" THEN <<"A">> ELSE <<"B">>]
         /\ "TITLE" \in Range(selected_fields) ) =>
          heap[result] = [k \in Fields |-> IF k = "ARTIST" THEN <<"A">>
                                           ELSE <<"A", " ", "-", " ", "B">>]

\* C8 witness: the example, returned.
C8_Witness ==
    /\ pc = "done"
    /\ operations = <<PrefixArtist>>
    /\ call_tags = [k \in Fields |-> IF k = "ARTIST" THEN <<"A">> ELSE <<"B">>]
    /\ heap[result]["TITLE"] = <<"A", " ", "-", " ", "B">>

\* C9 as stated: INSERT_FIELD_POSITION with a non-empty source splices
\* separator + source_value at position clamped to [0, len(current)], for every
\* integer position (below 0 as 0, beyond the end as the end); with an empty
\* source the value is unchanged.
C9_PositionClamped ==
    (Applied /\ LastOp.op_type = "INSERT_FIELD_POSITION") =>
        LET src == Get(call_tags, LastOp.source_field)
            p == Max(0, Min(LastOp.position, Len(current_value)))
        IN  new_value =
                IF src # <<>>
                THEN SubSeq(current_value, 1, p) \o LastOp.separator \o src
                     \o SubSeq(current_value, p + 1, Len(current_value))
                ELSE current_value

ClampedSplice(s, piece, p) ==
    LET q == Max(0, Min(p, Len(s)))
    IN  SubSeq(s, 1, q) \o piece \o SubSeq(s, q + 1, Len(s))

\* C20 as stated: for every integer position and length, negative ones included,
\* DELETE_RANGE returns the value with one stretch of characters taken out (never a
\* longer value), and INSERT_POSITION and INSERT_FIELD_POSITION put their text in
\* at the position clamped to [0, len(current)] (appended when the position is
\* beyond the end), or leave the value unchanged when there is nothing to insert.
C20_OutOfRangeClamped ==
    Applied =>
        /\ LastOp.op_type = "DELETE_RANGE" =>
              /\ Len(new_value) <= Len(current_value)
              /\ \E k \in 0..Len(new_value) :
                    /\ SubSeq(current_value, 1, k) = SubSeq(new_value, 1, k)
                    /\ SubSeq(current_value, Len(current_value) - (Len(new_value) - k) + 1,
                              Len(current_value))
                          = SubSeq(new_value, k + 1, Len(new_value))
        /\ LastOp.op_type = "INSERT_POSITION" =>
              new_value = ClampedSplice(current_value, LastOp.text, LastOp.position)
        /\ LastOp.op_type = "INSERT_FIELD_POSITION" =>
              LET src == Get(call_tags, LastOp.source_field)
              IN  new_value = IF src = <<>> THEN current_value
                              ELSE ClampedSplice(current_value, LastOp.separator \o src,
                                                 LastOp.position)

(***************************************************************************)
(* Properties of two operations in a row                                   *)
(***************************************************************************)
\* The value of TITLE at the call and in the returned mapping.
TitleIn == Get(call_tags, "TITLE")

TitleOut == Get(heap[result], "TITLE")

\* Both operations of a two-operation sequence were applied and the call returned.
PairDone == pc = "done" /\ Len(operations) = 2 /\ Len(writes) = 2

\* The substring DELETE_RANGE op takes out of s: s[position:end_pos], nothing when
\* position is not below len(s).
Removed(op, s) ==
    IF op.position < Len(s)
    THEN SubSeq(s, SliceIndex(op.position, Len(s)) + 1,
                SliceIndex(Min(op.position + op.length, Len(s)), Len(s)))
    ELSE <<>>

\* C11 as stated: for every value, position and length, DELETE_RANGE(p, n)
\* followed by INSERT_POSITION at the same p, with the text that the deletion took
\* out of the value, returns the value the sequence started from.
C11_DeleteInsertRoundTrip ==
    ( /\ PairDone
      /\ operations[1].op_type = "DELETE_RANGE"
      /\ operations[2].op_type = "INSERT_POSITION"
      /\ operations[2].position = operations[1].position
      /\ operations[2].text = Removed(operations[1], TitleIn) ) =>
        TitleOut = TitleIn

\* C18: REPLACE with old_text equal to new_text, applied to its own output,
\* returns that output.
C18_ReplaceSameIdempotent ==
    ( /\ PairDone
      /\ operations[1].op_type = "REPLACE"
      /\ operations[1].old_text = operations[1].new_text
      /\ operations[2] = operations[1] ) =>
        /\ writes[2].value = writes[1].value
        /\ TitleOut = writes[1].value

\* C18 witness: "AA" replaced by "AA" twice in "AAA", where two occurrences of the
\* search text overlap.
C18_Witness ==
    /\ PairDone
    /\ operations[1].op_type = "REPLACE"
    /\ operations[1].old_text = <<"A", "A">>
    /\ operations[1].new_text = <<"A", "A">>
    /\ operations[2] = operations[1]
    /\ TitleIn = <<"A", "A", "A">>
    /\ TitleOut = <<"A", "A", "A">>

\* C19: an operation whose op_type is none of the eleven kinds leaves the value
\* of its target as it is, and the operations after it are applied as usual: the
\* call returns, with the later INSERT_TEXT_SUFFIX "x" applied to the input value.
C19_UnknownKindIdentity ==
    /\ (Applied /\ LastOp.op_type \notin OperationType) => new_value = current_value
    /\ (pc = "done" /\ operations # <<>> /\ operations[1].op_type \notin OperationType) =>
          /\ writes[1].value = TitleIn
          /\ Len(operations) = 1 => TitleOut = TitleIn
          /\ (Len(operations) = 2 /\ operations[2] = SuffixX) =>
                TitleOut = TitleIn \o <<"x">>

\* C19 witness: the unknown operation and then the suffix were run on "AB", and
\* "ABx" was returned.
C19_Witness ==
    /\ PairDone
    /\ operations[1].op_type = UnknownType
    /\ operations[2] = SuffixX
    /\ TitleIn = <<"A", "B">>
    /\ writes[1].value = <<"A", "B">>
    /\ TitleOut = <<"A", "B", "x">>

(***************************************************************************)
(* Properties of the text clean-up kinds                                   *)
(***************************************************************************)
\* The least and the greatest member of a non-empty set of integers.
Least(S) == CHOOSE x \in S : \A y \in S : x <= y

Greatest(S) == CHOOSE x \in S : \A y \in S : y <= x

\* The offsets of s at or after from where a span open ... close can start and end.
\* Under the rule "leftmost" a span starts at the first open that has a close
\* after it on the same line, and ends at the first such close; under the rule
\* "shortest" it ends at the first close that has an open before it, and starts at
\* the last such open.
RECURSIVE SpansOf(_, _, _, _, _)
SpansOf(rule, s, open, close, from) ==
    LET Closes(i) == {k \in (i + 1)..Len(s) :
                         s[k] = close /\ \A m \in (i + 1)..(k - 1) : s[m] # "\n"}
        Starts == {i \in from..Len(s) : s[i] = open /\ Closes(i) # {}}
        Opens(k) == {i \in from..(k - 1) : s[i] = open}
        Ends == {k \in from..Len(s) : s[k] = close /\ Opens(k) # {}}
    IN  IF rule = "leftmost"
        THEN IF Starts = {} THEN {}
             ELSE LET i == Least(Starts)
                      k == Least(Closes(i))
                  IN  {<<i, k>>} \cup SpansOf(rule, s, open, close, k + 1)
        ELSE IF Ends = {} THEN {}
             ELSE LET k == Least(Ends)
                      i == Greatest(Opens(k))
                  IN  {<<i, k>>} \cup SpansOf(rule, s, open, close, k + 1)

\* s without the characters inside the spans.
Without(s, spans) ==
    LET kept == {i \in 1..Len(s) : \A sp \in spans : i < sp[1] \/ i > sp[2]}
    IN  [j \in 1..Cardinality(kept) |->
            s[CHOOSE i \in kept : Cardinality({x \in kept : x <= i}) = j]]

RECURSIVE Passes(_, _, _)
\* One pass per entry of exactly two characters, in list order.
Passes(rule, s, brackets) ==
    IF brackets = <<>> THEN s
    ELSE LET b == Head(brackets)
         IN  Passes(rule,
                    IF Len(b) = 2 THEN Without(s, SpansOf(rule, s, b[1], b[2], 1)) ELSE s,
                    Tail(brackets))

Song == <<"S", "o", "n", "g", " ", " ">>

\* C12 as stated: every pass removes the shortest non-overlapping open ... close
\* spans, scanning from the left; "Song (Live) [Remix]" with ["()", "[]"] becomes
\* "Song  "; from "((a)" the span removed is "(a)".
C12_ShortestSpans ==
    (Applied /\ LastOp.op_type = "REMOVE_BRACKETS") =>
        /\ new_value = Passes("shortest", current_value, LastOp.brackets)
        /\ (current_value = SongLiveRemix /\ LastOp.brackets = <<Round, Square>>) =>
              new_value = Song
        /\ (current_value = OpenOpenA /\ LastOp.brackets = <<Round>>) =>
              new_value = <<"(">>

\* C12 amended: every pass removes, scanning from the left, the span from the
\* first open that has a close after it on the same line to the first close after
\* that open, and goes on behind that close; "Song (Live) [Remix]" with
\* ["()", "[]"] becomes "Song  "; "((a)" is removed whole and "(a(b)c)" becomes "c)".
C12_LeftmostSpans ==
    (Applied /\ LastOp.op_type = "REMOVE_BRACKETS") =>
        /\ new_value = Passes("leftmost", current_value, LastOp.brackets)
        /\ (current_value = SongLiveRemix /\ LastOp.brackets = <<Round, Square>>) =>
              new_value = Song
        /\ (current_value = OpenOpenA /\ LastOp.brackets = <<Round>>) =>
              new_value = <<>>
        /\ (current_value = Nested /\ LastOp.brackets = <<Round>>) =>
              new_value = <<"c", ")">>

\* C12 witness: "((a)" was removed whole by the pass for "()".
C12_Witness ==
    /\ Applied
    /\ LastOp.op_type = "REMOVE_BRACKETS"
    /\ LastOp.brackets = <<Round>>
    /\ current_value = OpenOpenA
    /\ new_value = <<>>

\* s holds an open character of the entry b and, somewhere after it, a close one.
HasPair(s, b) == \E i, k \in 1..Len(s) : i < k /\ s[i] = b[1] /\ s[k] = b[2]

\* C13: a pass changes nothing when the value holds no open followed later by
\* close, and an entry that is not exactly 2 characters long has no pass: the result
\* is that of the passes for the 2-character entries whose pair occurs in the
\* value, and it is the value itself when there is no such entry.
C13_UnmatchedUnchanged ==
    (Applied /\ LastOp.op_type = "REMOVE_BRACKETS") =>
        LET live == SelectSeq(LastOp.brackets,
                              LAMBDA b : Len(b) = 2 /\ HasPair(current_value, b))
        IN  /\ live = <<>> => new_value = current_value
            /\ new_value = Passes("leftmost", current_value, live)

\* C13 witness: "(a)[" under the list ["(", "[]"]: the entry "(" is skipped and the
\* "[" has no "]" after it.
C13_Witness ==
    /\ Applied
    /\ LastOp.op_type = "REMOVE_BRACKETS"
    /\ LastOp.brackets = << <<"(">>, Square >>
    /\ current_value = <<"(", "a", ")", "[">>
    /\ new_value = current_value

\* C14: REMOVE_BRACKETS applied to its own output returns that output, for every
\* value and every list of pairs (several pairs, nested or interleaved brackets
\* included).
C14_RemoveBracketsIdempotent ==
    ( /\ PairDone
      /\ operations[1].op_type = "REMOVE_BRACKETS"
      /\ operations[2] = operations[1] ) =>
        /\ writes[2].value = writes[1].value
        /\ TitleOut = writes[1].value

\* C14 witness: interleaved brackets, "([)]" under ["()", "[]"]: the first
\* application leaves "]", and so does the second.
C14_Witness ==
    /\ PairDone
    /\ operations[1].op_type = "REMOVE_BRACKETS"
    /\ operations[1].brackets = <<Round, Square>>
    /\ operations[2] = operations[1]
    /\ TitleIn = <<"(", "[", ")", "]">>
    /\ writes[1].value = <<"]">>
    /\ TitleOut = <<"]">>

\* The characters of s at the offsets in kept, in their order.
Pick(s, kept) ==
    [j \in 1..Cardinality(kept) |->
        s[CHOOSE i \in kept : Cardinality({x \in kept : x <= i}) = j]]

\* s from its first to its last character that is not whitespace.
Edges(s) ==
    LET solid == {i \in 1..Len(s) : s[i] \notin Whitespace}
    IN  IF solid = {} THEN <<>> ELSE SubSeq(s, Least(solid), Greatest(solid))

\* s with every run of whitespace replaced by one space.
Collapsed(s) ==
    LET kept == {i \in 1..Len(s) :
                    s[i] \in Whitespace => (i = 1 \/ s[i - 1] \notin Whitespace)}
        picked == Pick(s, kept)
    IN  [j \in 1..Len(picked) |-> IF picked[j] \in Whitespace THEN " " ELSE picked[j]]

\* C15: TRIM_SPACES in the mode "all" returns the value with every whitespace run
\* collapsed to one space and the edges then stripped, so that no whitespace is
\* left at either end and no two whitespace characters are adjacent ("  a   b  "
\* becomes "a b"); the mode "both edges" only strips the edges and the mode
\* "duplicates" only collapses the runs.
C15_TrimSpaces ==
    (Applied /\ LastOp.op_type = "TRIM_SPACES") =>
        /\ LastOp.new_text = TRIM_ALL =>
              /\ new_value = Edges(Collapsed(current_value))
              /\ new_value # <<>> =>
                    new_value[1] \notin Whitespace /\ new_value[Len(new_value)] \notin Whitespace
              /\ \A i \in 1..(Len(new_value) - 1) :
                    ~(new_value[i] \in Whitespace /\ new_value[i + 1] \in Whitespace)
              /\ current_value = SpacedAB => new_value = <<"a", " ", "b">>
        /\ LastOp.new_text = TRIM_EDGES => new_value = Edges(current_value)
        /\ LastOp.new_text = TRIM_DUPLICATES => new_value = Collapsed(current_value)

\* C15 witness: "  a   b  " in the mode "all" became "a b".
C15_Witness ==
    /\ Applied
    /\ LastOp.op_type = "TRIM_SPACES"
    /\ LastOp.new_text = TRIM_ALL
    /\ current_value = SpacedAB
    /\ new_value = <<"a", " ", "b">>

\* C16 as stated: in the direction to English the character at index i of the
\* Chinese palette becomes the character at index i of the English palette, for
\* every index i; in the direction to Chinese the other way round; a character
\* outside the palette converted from stays as it is.
C16_IndexCorrespondence ==
    (Applied /\ LastOp.op_type = "CONVERT_PUNCTUATION") =>
        LET Maps(from, to) ==
                /\ Len(new_value) = Len(current_value)
                /\ \A j \in 1..Len(current_value) :
                      /\ \A i \in 1..Len(from) :
                            current_value[j] = from[i] => new_value[j] = to[i]
                      /\ current_value[j] \notin Range(from) =>
                            new_value[j] = current_value[j]
        IN  /\ LastOp.new_text = TO_ENGLISH =>
                  Maps(chinese_punctuation, english_punctuation)
            /\ LastOp.new_text = TO_CHINESE =>
                  Maps(english_punctuation, chinese_punctuation)

\* C17 as stated: a value made of characters of the Chinese palette and plain
\* text, converted to English and then to Chinese, is the value it was.
C17_PunctuationRoundTrip ==
    ( /\ PairDone
      /\ operations[1].op_type = "CONVERT_PUNCTUATION"
      /\ operations[1].new_text = TO_ENGLISH
      /\ operations[2].op_type = "CONVERT_PUNCTUATION"
      /\ operations[2].new_text = TO_CHINESE
      /\ Range(TitleIn) \subseteq Range(chinese_punctuation) \cup {"a"} ) =>
        TitleOut = TitleIn

(***************************************************************************)
(* Properties that compare two calls                                       *)
(***************************************************************************)
\* Two mappings hold the same value for every field, read with the default "".
SameValues(a, b) == \A f \in Fields : Get(a, f) = Get(b, f)

\* C21: a call on a mapping that lacks the key k and the call with the same
\* operations and selected fields on that mapping with k set to "" return the same
\* value for every field, read with the default "".
C21_AbsentIsEmpty ==
    pc = "done" =>
        /\ heap[result] = PreviewResult(operations, call_tags, selected_fields)
        /\ \A k \in Fields \ DOMAIN call_tags :
              SameValues(heap[result],
                         PreviewResult(operations, Put(call_tags, k, <<>>),
                                       selected_fields))

\* C21 witness: the input lacks a selected field that an operation wrote to, so
\* that the returned mapping has a value for it.
C21_Witness ==
    /\ pc = "done"
    /\ \E k \in Fields \ DOMAIN call_tags :
          /\ k \in Range(selected_fields)
          /\ Get(heap[result], k) # <<>>
          /\ Get(PreviewResult(operations, Put(call_tags, k, <<>>), selected_fields), k)
                = Get(heap[result], k)

\* Every list with the entries of the duplicate-free list s, in any order.
Orderings(s) ==
    { q \in [1..Len(s) -> Range(s)] : \A i, j \in 1..Len(s) : q[i] = q[j] => i = j }

\* C22: the call with the same operations and input but the selected fields
\* listed in another order returns the same mapping.
C22_SelectionOrderIrrelevant ==
    pc = "done" =>
        \A q \in Orderings(selected_fields) :
            PreviewResult(operations, call_tags, q) = heap[result]

\* C22 witness: two fields are selected, an apply_to_all operation wrote to both,
\* and the call with the list reversed returns the same changed mapping.
C22_Witness ==
    /\ pc = "done"
    /\ Len(selected_fields) = 2
    /\ \E i \in 1..Len(operations) :
          operations[i].apply_to_all /\ FieldsWrittenBy(i) = selected_fields
    /\ \A f \in Fields : Get(heap[result], f) # Get(call_tags, f)
    /\ PreviewResult(operations, call_tags, <<selected_fields[2], selected_fields[1]>>)
          = heap[result]

\* C27: two adjacent operations that each name one target field, with different
\* targets, can be exchanged (moving the later one up) without changing the
\* mapping the call returns, whatever their source fields are.
C27_DistinctTargetsCommute ==
    pc = "done" =>
        \A row \in 1..(Len(operations) - 1) :
            LET first == operations[row]
                second == operations[row + 1]
            IN  (/\ ~first.apply_to_all
                 /\ ~second.apply_to_all
                 /\ first.target_field # second.target_field)
                => PreviewResult(move_operation_up(operations, row), call_tags, selected_fields)
                      = heap[result]

\* C27 witness: the first operation prefixes TITLE with ARTIST, the second one
\* rewrites ARTIST, both fields are selected and both were changed.
C27_Witness ==
    /\ pc = "done"
    /\ Len(operations) = 2
    /\ ~operations[1].apply_to_all /\ ~operations[2].apply_to_all
    /\ operations[1].op_type = "INSERT_FIELD_PREFIX"
    /\ operations[1].target_field = "TITLE" /\ operations[1].source_field = "ARTIST"
    /\ operations[2].target_field = "ARTIST"
    /\ \A f \in Fields : Get(heap[result], f) # Get(call_tags, f)
    /\ PreviewResult(move_operation_up(operations, 1), call_tags, selected_fields)
          = heap[result]

\* The operation list uses no apply_to_all operation.
NoApplyToAll == \A i \in 1..Len(operations) : ~operations[i].apply_to_all

\* C30: when no operation has apply_to_all set, the preview_changes of
\* tag_processor.py returns, for the same operations, input mapping and selected
\* fields, the mapping the preview_changes of main.py returns.
C30_EnginesAgree ==
    (pc = "done" /\ NoApplyToAll) =>
        TPPreviewResult(operations, call_tags, selected_fields) = heap[result]

\* C30 witness: one operation is skipped because its target is not selected,
\* another inserts a non-empty source value with an empty separator, and both
\* engines return the same changed mapping.
C30_Witness ==
    /\ pc = "done" /\ NoApplyToAll
    /\ \E i \in 1..Len(operations) : TPSkipped(operations[i], selected_fields)
    /\ \E i \in 1..Len(operations) :
          /\ operations[i].op_type = "INSERT_FIELD_POSITION"
          /\ operations[i].separator = <<>>
          /\ Get(call_tags, operations[i].source_field) # <<>>
          /\ FieldsWrittenBy(i) # <<>>
    /\ heap[result] # call_tags
    /\ TPPreviewResult(operations, call_tags, selected_fields) = heap[result]

(***************************************************************************)
(* Properties of write_file_tags                                           *)
(***************************************************************************)
\* The call of write_file_tags on a file that can be opened and saved.
Written == events # <<>> /\ events[1].kind = "write" /\ files[events[1].path].state = "ok"

\* C25: write_file_tags decides field by field on new[field] # original[field]
\* alone: the stored tag of an unchanged field is as it was before the call, a
\* changed field with a non-empty new value is stored with that value, a changed
\* field with an empty new value is not stored any more; in every container.
C25_WriteByDifference ==
    Written =>
        LET w == events[1]
            file == files[w.path]
        IN  \A field \in DOMAIN w.new :
                LET key == StorageKey(file, field)
                IN  IF ~Changed(field, w.original, w.new)
                    THEN /\ key \in DOMAIN file.store <=> key \in DOMAIN w.before
                         /\ Get(file.store, key) = Get(w.before, key)
                    ELSE IF w.new[field] # <<>>
                         THEN key \in DOMAIN file.store /\ file.store[key] = w.new[field]
                         ELSE key \notin DOMAIN file.store

(***************************************************************************)
(* Properties of the batch                                                 *)
(***************************************************************************)
\* The positions of the events of one kind.
At(kind) == { k \in 1..Len(events) : events[k].kind = kind }

\* The events of one kind, in order.
EventsOf(kind) == SelectSeq(events, LAMBDA e : e.kind = kind)

\* The paths of a list of events.
PathsOf(es) == [k \in 1..Len(es) |-> es[k].path]

\* cancel() was called before position k of the history.
CancelledBefore(k) == \E j \in At("cancel") : j < k

\* The file_processed events before position k with the given outcome.
Processed(k, success) ==
    SelectSeq(SubSeq(events, 1, k - 1),
              LAMBDA e : e.kind = "file_processed" /\ e.success = success)

Started == events # <<>>

Completed == At("batch_completed") # {}

\* What holds of the history of a batch no cancel was requested in.
PartialFailure ==
    /\ Cardinality(At("batch_completed")) <= 1
    /\ \A k \in At("batch_completed") :
          ~CancelledBefore(k) =>
              LET c == events[k]
                  file_paths == events[1].file_paths
                  failed == Processed(k, FALSE)
              IN  /\ PathsOf(EventsOf("progress_updated")) = file_paths
                  /\ PathsOf(EventsOf("file_processed")) = file_paths
                  /\ c.success_count = Len(Processed(k, TRUE))
                  /\ c.error_count = Len(failed)
                  /\ c.success_count + c.error_count = Len(file_paths)
                  /\ Len(c.error_files) = c.error_count
                  /\ [j \in 1..Len(c.error_files) |-> c.error_files[j].file]
                        = PathsOf(failed)

\* C23: when no cancel is requested, every file of file_paths is attempted once,
\* in list order, also after a file that raised; every exception adds one entry
\* and one to error_count; batch_completed is emitted, once, with
\* success_count + error_count = the number of files and as many entries as errors.
C23_PartialFailure == []PartialFailure /\ (Started ~> Completed)

\* C23 witness: two files, the first raised, the second was written, and the
\* batch completed with one success and one listed failure.
C23_Witness ==
    /\ Completed /\ At("cancel") = {}
    /\ Len(events[1].file_paths) = 2
    /\ LET processed == EventsOf("file_processed")
           c == events[CHOOSE k \in At("batch_completed") : TRUE]
       IN  /\ Len(processed) = 2
           /\ ~processed[1].success /\ processed[2].success
           /\ c.success_count = 1 /\ c.error_count = 1
           /\ Len(c.error_files) = 1
           /\ c.error_files[1].file = events[1].file_paths[1]

\* C24: a file whose tags cannot be read is a failure of the batch: it is counted
\* in error_count and listed in error_files, it is not counted in success_count,
\* and its tags are left as they were.
C24_UnreadableReported ==
    \A k \in At("batch_completed") :
        ~CancelledBefore(k) =>
            LET c == events[k]
                file_paths == events[1].file_paths
                unreadable == { p \in Range(file_paths) : files[p].state = "unreadable" }
            IN  /\ c.error_count >= Cardinality(unreadable)
                /\ \A p \in unreadable :
                      \E j \in 1..Len(c.error_files) : c.error_files[j].file = p
                /\ c.success_count <= Len(file_paths) - Cardinality(unreadable)
                /\ \A j \in At("write") :
                      events[j].path \in unreadable => events[j].after = events[j].before

\* What holds of the history of a batch after cancel() was called.
Cancellation ==
    \A k \in At("cancel") :
        /\ \A j \in At("progress_updated") : j < k
        /\ \A j \in At("read") \cup At("write") :
              j > k => \E i \in At("progress_updated") :
                          /\ i < k
                          /\ events[i].path = events[j].path
                          /\ \A m \in At("file_processed") :
                                events[m].path = events[j].path => m > k
        /\ Cardinality(At("batch_completed")) <= 1
        /\ \A j \in At("batch_completed") :
              j > k => /\ events[j].error_files = <<CANCELLED>>
                       /\ events[j].success_count = Len(Processed(j, TRUE))
                       /\ events[j].error_count = Len(Processed(j, FALSE))

\* C28: once cancel() has set the flag, no further file is started (the flag is
\* tested before each file), at most the file in progress is still read and
\* written, the loop ends, and batch_completed is emitted, once, with the counts
\* reached so far and the cancellation marker as its list.
C28_Cancellation == []Cancellation /\ ((At("cancel") # {}) ~> Completed)

\* C28 witness: cancel() came while the first of two files was in progress; that
\* file was finished, the second was never started, and the batch completed with
\* one processed file and the marker.
C28_Witness ==
    /\ Completed /\ At("cancel") # {}
    /\ Len(events[1].file_paths) = 2
    /\ Len(EventsOf("progress_updated")) = 1
    /\ \E k \in At("cancel"), j \in At("read") : k < j
    /\ LET c == events[CHOOSE k \in At("batch_completed") : TRUE]
       IN  /\ c.success_count + c.error_count = 1
           /\ c.error_files = <<CANCELLED>>

(***************************************************************************)
(* Properties of save_config and load_config                               *)
(***************************************************************************)
\* The load, if load_config has run.
Loads == { k \in 1..Len(events) : events[k].kind = "load" }

\* The save whose file a load read, if the file was written by save_config.
SaveOf(k) == { j \in 1..(k - 1) : events[j].kind = "save" }

\* C26: loading the file save_config wrote gives the saved sequence: the same
\* length and order and, operation by operation, the same eleven attributes; the
\* sequence that was there before the load is replaced by it.
C26_ConfigRoundTrip ==
    \A k \in Loads : \A j \in SaveOf(k) :
        /\ ~events[k].failed
        /\ Len(events[k].after) = Len(events[j].operations)
        /\ \A n \in 1..Len(events[j].operations) :
              LET saved == events[j].operations[n]
                  loaded == events[k].after[n]
              IN  /\ loaded.op_type = saved.op_type
                  /\ loaded.target_field = saved.target_field
                  /\ loaded.source_field = saved.source_field
                  /\ loaded.text = saved.text
                  /\ loaded.old_text = saved.old_text
                  /\ loaded.new_text = saved.new_text
                  /\ loaded.position = saved.position
                  /\ loaded.length = saved.length
                  /\ loaded.brackets = saved.brackets
                  /\ loaded.separator = saved.separator
                  /\ loaded.apply_to_all = saved.apply_to_all
        /\ operations = events[k].after

\* C26 witness: a sequence of two operations, one of them with apply_to_all set,
\* was saved; the sequence was then changed to another non-empty one; the load
\* put the saved sequence in its place.
C26_Witness ==
    \E k \in Loads : \E j \in SaveOf(k) :
        /\ Len(events[j].operations) = 2
        /\ \E n \in 1..2 : events[j].operations[n].apply_to_all
        /\ events[k].before # <<>>
        /\ events[k].before # events[j].operations
        /\ events[k].before[1] # events[j].operations[1]
        /\ operations = events[j].operations

\* C29: a load that fails, whatever the reason, leaves the operation sequence as
\* it was before the call.
C29_LoadAtomic ==
    \A k \in Loads : events[k].failed => events[k].after = events[k].before

====
